---- MODULE Spec2Model ----
(***************************************************************************)
(* AstroWing Command: the simulation engine of components/GameCanvas (the  *)
(* per-tick update, resetGame, purchaseUpgrade, the speed-buff timer) and  *)
(* the session state machine of App (startGame, toggleShop, togglePause).  *)
(*                                                                         *)
(* Real numbers are fixed point: U units stand for 1.0, so hp, shield,     *)
(* damage, positions, velocities and speedMultiplier are integers counting *)
(* twentieths (the shield regeneration step 0.05 is one unit).  Times are  *)
(* integer milliseconds.  Math.random() is an integer number of hundredths *)
(* (0..99 stands for 0.00..0.99).                                          *)
(*                                                                         *)
(* The shield is the one number the code builds by repeated += 0.05.  In   *)
(* IEEE doubles 0.05 is not exact: a sum of such steps that stands for the *)
(* grid value 50 is a double just below 50.0 (from every start 0..49 and   *)
(* after any damage in between), so the comparison shield < maxShield      *)
(* still holds there.  The player's field shieldRounded tells whether the  *)
(* shield is such a sum or a value that was assigned exactly.              *)
(***************************************************************************)
EXTENDS Integers, Sequences, FiniteSets, TLC

\* ---------------------------------------------------------------- constants
U == 20

CANVAS_WIDTH == 600

CANVAS_HEIGHT == 800

ENEMY_SPAWN_RATE == 1000

PlayerSize == 40

PlayerMaxHp == 100

PlayerMaxShield == 50

PlayerFireRate == 150

InvulnerableMs == 3000

SpeedBuffMs == 5000

ProjectileDamage == 25

RepairCost == 1000

RepairHeal == 50

WeaponCostPerLevel == 2500

MaxWeaponLevel == 4

\* ------------------------------------------------------------------- bounds
\* PLAYING ticks explored from each initial state
MaxTicks == 1

\* frames explored while the session is not PLAYING
MaxIdleFrames == 1

\* startGame calls that may be awaiting the briefing at the same time
MaxPendingStarts == 1

\* consecutive PLAYING ticks of a combat run
MaxRun == 2

\* ------------------------------------------------------------------ helpers
Max(a, b) == IF a >= b THEN a ELSE b

Min(a, b) == IF a <= b THEN a ELSE b

Abs(a) == IF a < 0 THEN 0 - a ELSE a

\* a * n / d on fixed-point values, rounded toward zero
MulDiv(a, n, d) == IF a * n >= 0 THEN (a * n) \div d ELSE 0 - ((0 - (a * n)) \div d)

RECURSIVE ISqrtBits(_, _, _)
ISqrtBits(n, r, b) ==
  IF b = 0 THEN r
  ELSE IF (r + b) * (r + b) <= n THEN ISqrtBits(n, r + b, b \div 2)
       ELSE ISqrtBits(n, r, b \div 2)

\* Math.sqrt on a fixed-point square, truncated to a whole unit
ISqrt(n) == ISqrtBits(n, 0, 16384)

\* Math.sin of an angle in milliradians, in thousandths (Bhaskara's formula)
\* (16 p / (5 pi^2 - 4 p) with p = x (pi - x), x counted in units of 2 mrad)
SinHalf(x) == (1600 * x * (1571 - x)) \div ((5 * 1571 * 1571 - 4 * x * (1571 - x)) \div 10)

Sin1000(mrad) ==
  LET a == (mrad % 6284) \div 2
  IN IF a <= 1571 THEN SinHalf(a) ELSE 0 - SinHalf(a - 1571)

\* box overlap: |dx| < (wA+wB)/2 + pad and |dy| < (hA+hB)/2 + pad
Overlap(ax, ay, aw, ah, bx, by, bw, bh, pad) ==
  /\ 2 * Abs(ax - bx) < aw + bw + 2 * pad
  /\ 2 * Abs(ay - by) < ah + bh + 2 * pad

\* --------------------------------------------------------------- data model
GameStates == {"MENU", "PLAYING", "PAUSED", "SHOP", "GAME_OVER"}

\* the items the shop overlay sells
ShopItems == {"WEAPON", "REPAIR"}

\* the kinds the handle's purchaseUpgrade accepts
UpgradeKinds == {"WEAPON", "REPAIR", "SHIELD"}

\* the player literal of the initial gameRef and of resetGame
NewPlayer(invulnerableUntil) ==
  [x |-> (CANVAS_WIDTH \div 2) * U, y |-> (CANVAS_HEIGHT - 100) * U,
   width |-> PlayerSize * U, height |-> PlayerSize * U,
   hp |-> PlayerMaxHp * U, maxHp |-> PlayerMaxHp * U,
   shield |-> PlayerMaxShield * U, maxShield |-> PlayerMaxShield * U,
   shieldRounded |-> FALSE,
   fireRate |-> PlayerFireRate, lastFired |-> 0,
   weaponLevel |-> 1, speedMultiplier |-> U,
   invulnerableUntil |-> invulnerableUntil]

NewStats ==
  [score |-> 0, credits |-> 0, wave |-> 1, enemiesDestroyed |-> 0,
   shotsFired |-> 0, shotsHit |-> 0, timeSurvived |-> 0, weaponLevel |-> 1]

InitialMousePos == [x |-> (CANVAS_WIDTH \div 2) * U, y |-> (CANVAS_HEIGHT - 100) * U]

VARIABLES
  gameState,      \* App: the session state
  pendingStarts,  \* App: startGame calls awaiting generateBriefing
  gameTime,       \* gameTimeRef: the simulation clock, ms
  spawnTimer,     \* spawnTimerRef: simulation time of the last spawn
  inputMode,      \* inputModeRef
  keys,           \* gameRef.keys: the key codes held down
  mousePos,       \* gameRef.mousePos
  player,         \* gameRef.player
  enemies,        \* gameRef.enemies
  projectiles,    \* gameRef.projectiles
  particles,      \* gameRef.particles
  powerups,       \* gameRef.powerups
  stats,          \* gameRef.stats
  shake,          \* gameRef.shake, thousandths
  timers,         \* pending setTimeout callbacks of SPEED pickups
  session,        \* history: number of sessions started so far
  events,         \* history: onEvent calls of the last step
  hits,           \* history: damage applications of the last tick
  log,            \* history: the shots, contacts and strikes of the last tick
  endGameCalls,   \* history: endGame calls of the last tick
  statsUpdates,   \* history: onStatsUpdate calls of the last step
  request,        \* history: the type passed to the open shop's last purchaseUpgrade
  result,         \* history: the value that purchaseUpgrade returned
  lastFrame,      \* history: the session state the last frame ran in
  idle,           \* history: frames run while the session was not PLAYING
  ticks,          \* history: PLAYING ticks executed
  pendingUpdates, \* generateTacticalUpdate calls of handleGameEvent still in flight
  settled,        \* history: the narrative call that settled last, and how
  debriefRequests \* history: handleGameOver calls made by the App's onStatsUpdate

world == <<gameTime, spawnTimer, player, enemies, projectiles, particles, powerups, stats, shake>>

input == <<inputMode, keys, mousePos>>

narrative == <<pendingUpdates, settled, debriefRequests>>

history == <<session, events, hits, log, endGameCalls, statsUpdates, request, result, lastFrame,
             idle, ticks, narrative>>

\* what the last tick or purchase handed to the collaborators
outputs == <<events, hits, log, endGameCalls, statsUpdates, request, result, lastFrame>>

vars == <<gameState, pendingStarts, world, input, timers, history>>

\* a tick that has not fired, shot or touched anything
EmptyLog ==
  [fired |-> <<>>, shots |-> <<>>, contacts |-> <<>>, strikes |-> <<>>, spawned |-> <<>>,
   volleys |-> <<>>, pickups |-> <<>>]

\* no narrative call has settled yet
NothingSettled == [call |-> "none", outcome |-> "none", state |-> "none", value |-> "none"]

\* the state after the first render of App and GameCanvas
Init ==
  /\ gameState = "MENU"
  /\ pendingStarts = 0
  /\ gameTime = 0
  /\ spawnTimer = 0
  /\ inputMode = "MOUSE"
  /\ keys = {}
  /\ mousePos = InitialMousePos
  /\ player = NewPlayer(0)
  /\ enemies = <<>>
  /\ projectiles = <<>>
  /\ particles = <<>>
  /\ powerups = <<>>
  /\ stats = NewStats
  /\ shake = 0
  /\ timers = <<>>
  /\ session = 0
  /\ events = <<>>
  /\ hits = <<>>
  /\ log = EmptyLog
  /\ pendingUpdates = 0
  /\ settled = NothingSettled
  /\ debriefRequests = 0
  /\ endGameCalls = 0
  /\ statsUpdates = 0
  /\ request = "none"
  /\ result = "none"
  /\ lastFrame = "none"
  /\ idle = 0
  /\ ticks = 0

\* ------------------------------------------------------------ the tick: update
\* The tick works on one record w of the mutable refs: time, spawnTimer,
\* player, enemies, projectiles, particles, powerups, stats, shake, and of
\* what the tick hands to its collaborators: events (onEvent), statsUpdates
\* (onStatsUpdate), endGameCalls (endGame), newTimers (setTimeout), hits.

\* createExplosion: count particles at (x, y); a heavy one sets the shake.
\* pd is the draw of Math.random() for the particles of this tick.
NewParticle(x, y, heavy, pd) ==
  [x |-> x, y |-> y,
   vx |-> MulDiv(pd.rvx - 50, (IF heavy THEN 12 ELSE 6) * U, 100),
   vy |-> MulDiv(pd.rvy - 50, (IF heavy THEN 12 ELSE 6) * U, 100),
   life |-> 30 + MulDiv(pd.rlife, 20, 100), maxLife |-> 50, active |-> TRUE]

createExplosion(w, x, y, count, heavy, pd) ==
  [w EXCEPT !.shake = IF heavy THEN 10000 ELSE @,
            !.particles = @ \o [i \in 1..count |-> NewParticle(x, y, heavy, pd)]]

\* endGame: setGameState(GAME_OVER) and the final stats snapshot
endGame(w) ==
  [w EXCEPT !.endGameCalls = @ + 1, !.statsUpdates = @ + 1,
            !.snapshots = Append(@, w.stats.score)]

onEvent(w, e) == [w EXCEPT !.events = Append(@, e)]

\* a clock whose survival time runs backwards
AdvanceTimeBack(w, dt) ==
  [w EXCEPT !.time = @ + dt, !.stats.timeSurvived = @ - dt]

AdvanceTime(w, dt) ==
  [w EXCEPT !.time = @ + dt, !.stats.timeSurvived = @ + dt]

ShakeDecay(w) ==
  LET s1 == IF w.shake > 0 THEN (w.shake * 9) \div 10 ELSE w.shake
  IN [w EXCEPT !.shake = IF s1 < 500 THEN 0 ELSE s1]

Held(ks, a, b) == a \in ks \/ b \in ks

\* Player Movement without Clamp Player
PlayerMovementUnclamped(w, mode, ks, mouse) ==
  LET p == w.player
      speed == 7 * p.speedMultiplier
      dx == (IF Held(ks, "KeyD", "ArrowRight") THEN 1 ELSE 0)
            - (IF Held(ks, "KeyA", "ArrowLeft") THEN 1 ELSE 0)
      dy == (IF Held(ks, "KeyS", "ArrowDown") THEN 1 ELSE 0)
            - (IF Held(ks, "KeyW", "ArrowUp") THEN 1 ELSE 0)
      diag == dx # 0 /\ dy # 0
      kx == IF diag THEN MulDiv(dx * speed, 7071, 10000) ELSE dx * speed
      ky == IF diag THEN MulDiv(dy * speed, 7071, 10000) ELSE dy * speed
      lerp == (IF mode = "EYE" THEN 8 ELSE 25) * p.speedMultiplier
      mx == MulDiv(mouse.x - p.x, lerp, 100 * U)
      my == MulDiv(mouse.y - p.y, lerp, 100 * U)
  IN [w EXCEPT !.player.x = IF mode = "KEYBOARD" THEN p.x + kx ELSE p.x + mx,
               !.player.y = IF mode = "KEYBOARD" THEN p.y + ky ELSE p.y + my]

PlayerMovement(w, mode, ks, mouse) ==
  LET p == w.player
      speed == 7 * p.speedMultiplier
      dx == (IF Held(ks, "KeyD", "ArrowRight") THEN 1 ELSE 0)
            - (IF Held(ks, "KeyA", "ArrowLeft") THEN 1 ELSE 0)
      dy == (IF Held(ks, "KeyS", "ArrowDown") THEN 1 ELSE 0)
            - (IF Held(ks, "KeyW", "ArrowUp") THEN 1 ELSE 0)
      diag == dx # 0 /\ dy # 0
      kx == IF diag THEN MulDiv(dx * speed, 7071, 10000) ELSE dx * speed
      ky == IF diag THEN MulDiv(dy * speed, 7071, 10000) ELSE dy * speed
      lerp == (IF mode = "EYE" THEN 8 ELSE 25) * p.speedMultiplier
      mx == MulDiv(mouse.x - p.x, lerp, 100 * U)
      my == MulDiv(mouse.y - p.y, lerp, 100 * U)
      nx == IF mode = "KEYBOARD" THEN p.x + kx ELSE p.x + mx
      ny == IF mode = "KEYBOARD" THEN p.y + ky ELSE p.y + my
  IN [w EXCEPT
        !.player.x = Max(p.width \div 2, Min(CANVAS_WIDTH * U - p.width \div 2, nx)),
        !.player.y = Max(p.height \div 2, Min(CANVAS_HEIGHT * U - p.height \div 2, ny))]

\* state.player.shield < state.player.maxShield, as doubles compare
ShieldBelowMax(p) ==
  \/ p.shield < p.maxShield
  \/ p.shield = p.maxShield /\ p.shieldRounded

ShieldRegen(w) ==
  IF ShieldBelowMax(w.player) /\ w.time % 100 < 16
  THEN [w EXCEPT !.player.shield = @ + 1, !.player.shieldRounded = TRUE]
  ELSE w

createProjectile(p, offsetX, offsetY, vx, vy) ==
  [x |-> p.x + offsetX * U, y |-> p.y + offsetY * U, vx |-> vx * U, vy |-> vy * U,
   width |-> 4 * U, height |-> 12 * U, damage |-> ProjectileDamage * U,
   owner |-> "player", tracking |-> FALSE, isMine |-> FALSE, active |-> TRUE]

\* a weapon whose upgrades add no projectile
WeaponPatternBasic(p) == <<createProjectile(p, 0, -20, 0, -12)>>

\* switch(state.player.weaponLevel)
WeaponPattern(p) ==
  CASE p.weaponLevel = 1 -> <<createProjectile(p, 0, -20, 0, -12)>>
    [] p.weaponLevel = 2 -> <<createProjectile(p, -10, -10, 0, -12),
                              createProjectile(p, 10, -10, 0, -12)>>
    [] p.weaponLevel = 3 -> <<createProjectile(p, 0, -20, 0, -12),
                              createProjectile(p, -15, -10, -2, -11),
                              createProjectile(p, 15, -10, 2, -11)>>
    [] p.weaponLevel = 4 -> <<createProjectile(p, -10, -10, 0, -14),
                              createProjectile(p, 10, -10, 0, -14),
                              createProjectile(p, -20, 0, -3, -10),
                              createProjectile(p, 20, 0, 3, -10)>>
    [] OTHER -> <<createProjectile(p, 0, -20, 0, -12)>>

AutoFire(w) ==
  IF w.time - w.player.lastFired > w.player.fireRate
  THEN [w EXCEPT !.projectiles = @ \o WeaponPattern(w.player),
                 !.log.fired = @ \o WeaponPattern(w.player),
                 !.player.lastFired = w.time,
                 !.stats.shotsFired = @ + 1]
  ELSE w

\* the spawn interval without its floor of 200 ms
SpawnIntervalNoFloor(wave) == ENEMY_SPAWN_RATE - wave * 50

SpawnInterval(wave) == Max(200, ENEMY_SPAWN_RATE - wave * 50)

\* the type chosen for the draw rand (hundredths)
\* the type chain with the minelayer test ahead of the guardian test
EnemyTypeMinelayerFirst(wave, rand) ==
  IF wave >= 2 /\ rand > 80 THEN "minelayer"
  ELSE IF wave >= 3 /\ rand > 90 THEN "guardian"
  ELSE IF rand > 95 THEN "bomber"
  ELSE IF rand > 80 THEN "seeker"
  ELSE IF rand > 60 THEN "fighter"
  ELSE "drone"

\* the type chain with the bomber test ahead of the wave tests
EnemyTypeBomberFirst(wave, rand) ==
  IF rand > 95 THEN "bomber"
  ELSE IF wave >= 3 /\ rand > 90 THEN "guardian"
  ELSE IF wave >= 2 /\ rand > 80 THEN "minelayer"
  ELSE IF rand > 80 THEN "seeker"
  ELSE IF rand > 60 THEN "fighter"
  ELSE "drone"

EnemyType(wave, rand) ==
  IF wave >= 3 /\ rand > 90 THEN "guardian"
  ELSE IF wave >= 2 /\ rand > 80 THEN "minelayer"
  ELSE IF rand > 95 THEN "bomber"
  ELSE IF rand > 80 THEN "seeker"
  ELSE IF rand > 60 THEN "fighter"
  ELSE "drone"

EnemyHp(type, wave) ==
  CASE type = "guardian" -> 200 + wave * 15
    [] type = "minelayer" -> 100 + wave * 10
    [] type = "bomber" -> 150 + wave * 10
    [] type = "seeker" -> 50 + wave * 5
    [] type = "fighter" -> 60 + wave * 5
    [] OTHER -> 30 + wave * 5

EnemyWidth(type) ==
  CASE type = "guardian" -> 45
    [] type = "minelayer" -> 50
    [] type = "bomber" -> 50
    [] type = "seeker" -> 35
    [] type = "fighter" -> 40
    [] OTHER -> 30

EnemyScore(type) ==
  CASE type = "guardian" -> 400
    [] type = "minelayer" -> 250
    [] type = "bomber" -> 300
    [] type = "seeker" -> 150
    [] type = "fighter" -> 200
    [] OTHER -> 100

EnemyShield(type) == IF type = "guardian" THEN 100 ELSE 0

\* the enemy literal pushed by the spawn block; d holds the draws of
\* Math.random() for type, x, vel.x, vel.y and pattern
NewEnemy(wave, d) ==
  LET type == EnemyType(wave, d.rand)
  IN [x |-> MulDiv(d.rx, (CANVAS_WIDTH - 40) * U, 100) + 20 * U, y |-> (0 - 40) * U,
      vx |-> MulDiv(d.rvx - 50, 2 * U, 100),
      vy |-> MulDiv(d.rvy, 2 * U, 100) + U + MulDiv(wave, U, 10),
      width |-> EnemyWidth(type) * U, height |-> EnemyWidth(type) * U,
      active |-> TRUE, hp |-> EnemyHp(type, wave) * U, type |-> type,
      scoreValue |-> EnemyScore(type), pattern |-> (d.rp * 3) \div 100,
      lastFired |-> 0,
      shield |-> EnemyShield(type) * U, maxShield |-> EnemyShield(type) * U]

SpawnEvents(type) ==
  CASE type = "guardian" -> <<"ENEMY_SPAWN_GUARDIAN">>
    [] type = "minelayer" -> <<"ENEMY_SPAWN_MINELAYER">>
    [] OTHER -> <<>>

SpawnEnemies(w, d) ==
  IF w.time - w.spawnTimer > SpawnInterval(w.stats.wave)
  THEN [w EXCEPT !.spawnTimer = w.time,
                 !.events = @ \o SpawnEvents(EnemyType(w.stats.wave, d.rand)),
                 !.enemies = Append(@, NewEnemy(w.stats.wave, d)),
                 !.log.spawned = Append(@, [rand |-> d.rand, wave |-> w.stats.wave])]
  ELSE w

\* Update Projectiles: homing, mine drift, move, leave the bounds
\* bounds that let a projectile leave through the top edge
OutOfBoundsBelow(x, y) ==
  \/ y > (CANVAS_HEIGHT + 50) * U
  \/ x < (0 - 50) * U
  \/ x > (CANVAS_WIDTH + 50) * U

\* pos.y < -50 || pos.y > CANVAS_HEIGHT + 50 || pos.x < -50 || pos.x > CANVAS_WIDTH + 50
OutOfBounds(x, y) ==
  \/ y < (0 - 50) * U
  \/ y > (CANVAS_HEIGHT + 50) * U
  \/ x < (0 - 50) * U
  \/ x > (CANVAS_WIDTH + 50) * U

\* a mine that stays where it was laid
MineDriftNone(p) == 0

\* Mine Logic (Drift slowly): p.vel.y = 1
MineDrift(p) == U

MoveProjectile(p, pl) ==
  LET dx == pl.x - p.x
      dy == pl.y - p.y
      dist == ISqrt(dx * dx + dy * dy)
      homing == p.tracking /\ p.owner = "enemy" /\ dist > 0
      vx1 == IF homing THEN MulDiv(p.vx, 95, 100) + MulDiv(dx, 4 * U * 5, dist * 100) ELSE p.vx
      vy1 == IF homing THEN MulDiv(p.vy, 95, 100) + MulDiv(dy, 4 * U * 5, dist * 100) ELSE p.vy
      vx2 == IF p.isMine THEN MulDiv(vx1, 95, 100) ELSE vx1
      vy2 == IF p.isMine THEN MineDrift(p) ELSE vy1
      nx == p.x + vx2
      ny == p.y + vy2
      out == OutOfBounds(nx, ny)
  IN [p EXCEPT !.vx = vx2, !.vy = vy2, !.x = nx, !.y = ny,
               !.active = IF out THEN FALSE ELSE @]

UpdateProjectiles(w) ==
  [w EXCEPT !.projectiles = [i \in 1..Len(@) |-> MoveProjectile(@[i], w.player)]]

\* a SHIELD powerup that repairs the hull beyond maxHp, and a WEAPON powerup
\* that is lost at the maximum level
ApplyPowerupUnclamped(w, type) ==
  CASE type = "WEAPON" ->
         IF w.player.weaponLevel < MaxWeaponLevel
         THEN onEvent([w EXCEPT !.player.weaponLevel = @ + 1,
                                !.stats.weaponLevel = w.player.weaponLevel + 1],
                      "WEAPON_UPGRADED")
         ELSE w
    [] type = "SHIELD" ->
         onEvent([w EXCEPT !.player.shield = w.player.maxShield,
                           !.player.shieldRounded = FALSE,
                           !.player.hp = w.player.hp + 25 * U],
                 "REPAIR_COMPLETE")
    [] type = "SPEED" ->
         [w EXCEPT !.player.speedMultiplier = (3 * U) \div 2,
                   !.newTimers = @ + 1]
    [] OTHER -> w

\* a WEAPON powerup that raises the level whatever it is
ApplyPowerupUncapped(w, type) ==
  CASE type = "WEAPON" ->
         onEvent([w EXCEPT !.player.weaponLevel = @ + 1,
                           !.stats.weaponLevel = w.player.weaponLevel + 1],
                 "WEAPON_UPGRADED")
    [] type = "SHIELD" ->
         onEvent([w EXCEPT !.player.shield = w.player.maxShield,
                           !.player.shieldRounded = FALSE,
                           !.player.hp = Min(w.player.hp + 25 * U, w.player.maxHp)],
                 "REPAIR_COMPLETE")
    [] type = "SPEED" ->
         [w EXCEPT !.player.speedMultiplier = (3 * U) \div 2,
                   !.newTimers = @ + 1]
    [] OTHER -> w

\* the effect of a powerup picked up by the player
ApplyPowerup(w, type) ==
  CASE type = "WEAPON" ->
         IF w.player.weaponLevel < MaxWeaponLevel
         THEN onEvent([w EXCEPT !.player.weaponLevel = @ + 1,
                                !.stats.weaponLevel = w.player.weaponLevel + 1],
                      "WEAPON_UPGRADED")
         ELSE [w EXCEPT !.stats.score = @ + 500]
    [] type = "SHIELD" ->
         onEvent([w EXCEPT !.player.shield = w.player.maxShield,
                           !.player.shieldRounded = FALSE,
                           !.player.hp = Min(w.player.hp + 25 * U, w.player.maxHp)],
                 "REPAIR_COMPLETE")
    [] type = "SPEED" ->
         [w EXCEPT !.player.speedMultiplier = (3 * U) \div 2,
                   !.newTimers = @ + 1]
    [] OTHER -> w

\* what the pickup of powerup i did
Pickup(i, type, before, after) ==
  [powerup |-> i, type |-> type,
   level |-> before.player.weaponLevel, level2 |-> after.player.weaponLevel,
   hp |-> before.player.hp, hp2 |-> after.player.hp,
   shield |-> before.player.shield, shield2 |-> after.player.shield,
   score |-> before.stats.score, score2 |-> after.stats.score,
   events |-> SubSeq(after.events, Len(before.events) + 1, Len(after.events))]

RECURSIVE UpdatePowerupsFrom(_, _)
UpdatePowerupsFrom(w, i) ==
  IF i > Len(w.powerups) THEN w
  ELSE LET p == w.powerups[i]
           pl == w.player
           y1 == p.y + 2 * U
           a1 == IF y1 > (CANVAS_HEIGHT + 50) * U THEN FALSE ELSE p.active
           hit == Overlap(p.x, y1, p.width, p.height, pl.x, pl.y, pl.width, pl.height, 0)
           w1 == [w EXCEPT !.powerups[i].y = y1,
                           !.powerups[i].active = IF hit THEN FALSE ELSE a1]
           w2 == ApplyPowerup(w1, p.type)
       IN UpdatePowerupsFrom(
            IF hit
            THEN [w2 EXCEPT !.log.pickups = Append(@, Pickup(i, p.type, w1, w2))]
            ELSE w1,
            i + 1)

UpdatePowerups(w) == UpdatePowerupsFrom(w, 1)

\* the damage of wave 1 at every wave
EnemyDamageFlat(wave) == (15 + 3) * U

\* Enemy Damage Scaling
EnemyDamage(wave) == (15 + wave * 3) * U

\* the contact damage of wave 1 at every wave
ContactDamageFlat(wave) == (25 + 5) * U

ContactDamage(wave) == (25 + wave * 5) * U

\* a shield that swallows the whole hit when it breaks
PlayerContactDamageNoOverflow(p, damageTaken) ==
  IF p.shield > 0
  THEN [p EXCEPT !.shield = Max(0, @ - damageTaken)]
  ELSE [p EXCEPT !.hp = @ - damageTaken]

\* Player Damage of an enemy contact: shield first, the overflow to the hull
PlayerContactDamage(p, damageTaken) ==
  IF p.shield > 0
  THEN IF p.shield - damageTaken < 0
       THEN [p EXCEPT !.hp = @ + (p.shield - damageTaken), !.shield = 0]
       ELSE [p EXCEPT !.shield = @ - damageTaken]
  ELSE [p EXCEPT !.hp = @ - damageTaken]

\* Shield logic of an enemy projectile that hits the player
PlayerProjectileDamage(p, damage) ==
  IF p.shield > 0
  THEN IF p.shield - damage < 0
       THEN [p EXCEPT !.hp = @ + (p.shield - damage), !.shield = 0]
       ELSE [p EXCEPT !.shield = @ - damage]
  ELSE [p EXCEPT !.hp = @ - damage]

\* Hit Shield First of a player projectile that hits an enemy
EnemyProjectileDamage(e, damage) ==
  IF e.shield > 0
  THEN IF e.shield - damage < 0
       THEN [e EXCEPT !.hp = @ + (e.shield - damage), !.shield = 0]
       ELSE [e EXCEPT !.shield = @ - damage]
  ELSE [e EXCEPT !.hp = @ - damage]

Hit(target, cause, proj, before, d, after) ==
  [target |-> target, cause |-> cause, proj |-> proj, d |-> d,
   s |-> before.shield, h |-> before.hp, s2 |-> after.shield, h2 |-> after.hp]

\* a death check that lets a hull of exactly 0 fly on
DeathCheckStrict(w) ==
  IF w.player.hp < 0 THEN endGame(w) ELSE onEvent(w, "HULL_DAMAGE")

\* a death check that reports no hull damage
DeathCheckSilent(w) ==
  IF w.player.hp <= 0 THEN endGame(w) ELSE w

\* the death check after a hit on the player
DeathCheck(w) ==
  IF w.player.hp <= 0 THEN endGame(w) ELSE onEvent(w, "HULL_DAMAGE")

EnemyProjectile(e, vx, vy, w, h, damage, tracking, isMine) ==
  [x |-> e.x, y |-> e.y + 20 * U, vx |-> vx * U, vy |-> vy * U,
   width |-> w * U, height |-> h * U, damage |-> damage,
   owner |-> "enemy", tracking |-> tracking, isMine |-> isMine, active |-> TRUE]

FireInterval(type) ==
  IF type = "guardian" THEN 2500 ELSE IF type = "minelayer" THEN 3000 ELSE 2000

\* the projectiles an enemy pushes when its fire interval has elapsed
EnemyShots(e, wave) ==
  CASE e.type = "minelayer" -> <<EnemyProjectile(e, 0, 0, 15, 15, 40 * U, FALSE, TRUE)>>
    [] e.type = "guardian" -> <<EnemyProjectile(e, 0, 3, 8, 8, 25 * U, TRUE, FALSE)>>
    [] e.type = "fighter" -> <<EnemyProjectile(e, 0, 6, 6, 12, EnemyDamage(wave), FALSE, FALSE)>>
    [] e.type = "bomber" -> <<EnemyProjectile(e, 0, 6, 6, 12, EnemyDamage(wave), FALSE, FALSE),
                              EnemyProjectile(e, -2, 5, 6, 12, EnemyDamage(wave), FALSE, FALSE),
                              EnemyProjectile(e, 2, 5, 6, 12, EnemyDamage(wave), FALSE, FALSE)>>
    [] OTHER -> <<>>

\* move and Behavior Patterns of one enemy
MoveEnemy(e, pl, wave, time) ==
  LET x1 == e.x + e.vx
      y1 == e.y + e.vy
      moveSpeed == U + MulDiv(wave, 5 * U, 100)
  IN CASE e.type = "seeker" ->
            [e EXCEPT !.x = IF x1 < pl.x THEN x1 + moveSpeed ELSE x1 - moveSpeed, !.y = y1]
       [] e.type = "minelayer" ->
            [e EXCEPT !.x = x1, !.y = y1,
                      !.vy = IF y1 > 200 * U THEN 0 - (U \div 2) ELSE U \div 2,
                      !.vx = MulDiv(Sin1000(time * 2), 2 * U, 1000)]
       [] e.type = "guardian" ->
            [e EXCEPT !.x = x1, !.y = y1, !.vy = U \div 2,
                      !.vx = MulDiv(Sin1000(time), U \div 2, 1000)]
       [] OTHER ->
            [e EXCEPT !.x = IF e.pattern = 1 THEN x1 + MulDiv(Sin1000(time * 5), 2 * U, 1000) ELSE x1,
                      !.y = y1]

\* Shooting Logic without the test of the vertical view
EnemyShootingUnseen(w, i) ==
  LET e == w.enemies[i]
  IN IF w.time - e.lastFired > FireInterval(e.type)
     THEN [w EXCEPT !.enemies[i].lastFired = w.time,
                    !.projectiles = @ \o EnemyShots(e, w.stats.wave),
                    !.log.shots = @ \o EnemyShots(e, w.stats.wave),
                    !.log.volleys = Append(@, [enemy |-> i, shots |-> EnemyShots(e, w.stats.wave)])]
     ELSE w

\* Shooting Logic of one enemy (already moved)
EnemyShooting(w, i) ==
  LET e == w.enemies[i]
  IN IF /\ e.y > 0
        /\ e.y < (CANVAS_HEIGHT - 50) * U
        /\ w.time - e.lastFired > FireInterval(e.type)
     THEN [w EXCEPT !.enemies[i].lastFired = w.time,
                    !.projectiles = @ \o EnemyShots(e, w.stats.wave),
                    !.log.shots = @ \o EnemyShots(e, w.stats.wave),
                    !.log.volleys = Append(@, [enemy |-> i, shots |-> EnemyShots(e, w.stats.wave)])]
     ELSE w

\* a player that every overlap damages
VulnerableAlways(w) == TRUE

\* state.time > state.player.invulnerableUntil
Vulnerable(w) == w.time > w.player.invulnerableUntil

\* a guardian that the first contact destroys like any other enemy
ShieldImpactNever(e) == FALSE

\* Guardian Shield Impact Logic: e.type === 'guardian' && (e.shield || 0) > 0
ShieldImpact(e) == e.type = "guardian" /\ e.shield > 0

\* what a contact did to enemy i
Contact(i, e, after) ==
  [enemy |-> i, type |-> e.type, shield |-> e.shield,
   shield2 |-> after.shield, active2 |-> after.active]

\* Check collision with Player of one enemy
EnemyContact(w, i, pd) ==
  LET e == w.enemies[i]
      pl == w.player
  IN IF /\ Vulnerable(w)
        /\ Overlap(e.x, e.y, e.width, e.height, pl.x, pl.y, pl.width, pl.height, 0)
     THEN LET w1 == IF ShieldImpact(e)
                    THEN createExplosion([w EXCEPT !.enemies[i].shield = 0], e.x, e.y, 10, TRUE, pd)
                    ELSE createExplosion([w EXCEPT !.enemies[i].active = FALSE], e.x, e.y, 15, TRUE, pd)
              damageTaken == ContactDamage(w.stats.wave)
              pl2 == PlayerContactDamage(pl, damageTaken)
              w2 == [w1 EXCEPT !.player = pl2,
                               !.hits = Append(@, Hit("player", "contact", i, pl, damageTaken, pl2)),
                               !.log.contacts = Append(@, Contact(i, e, w1.enemies[i]))]
          IN DeathCheck(w2)
     ELSE w

EnemyBottom(w, i) ==
  IF w.enemies[i].y > (CANVAS_HEIGHT + 50) * U
  THEN [w EXCEPT !.enemies[i].active = FALSE]
  ELSE w

RECURSIVE UpdateEnemiesFrom(_, _, _)
UpdateEnemiesFrom(w, i, pd) ==
  IF i > Len(w.enemies) THEN w
  ELSE LET w1 == [w EXCEPT !.enemies[i] = MoveEnemy(@, w.player, w.stats.wave, w.time)]
       IN UpdateEnemiesFrom(EnemyBottom(EnemyContact(EnemyShooting(w1, i), i, pd), i), i + 1, pd)

UpdateEnemies(w, pd) == UpdateEnemiesFrom(w, 1, pd)

\* the powerup type of a kill: nested draws r2 and r3
PowerUpType(dd) ==
  IF dd.r2 < 40 THEN "SHIELD" ELSE IF dd.r3 < 70 THEN "SPEED" ELSE "WEAPON"

NewPowerUp(e, dd) ==
  [x |-> e.x, y |-> e.y, width |-> 20 * U, height |-> 20 * U,
   type |-> PowerUpType(dd), active |-> TRUE]

\* a wave that every kill after the twentieth clears again
WaveClearedAfter(n) == n >= 20

\* state.stats.enemiesDestroyed % 20 === 0
WaveCleared(n) == n % 20 = 0

\* a kill that pays score but no credits
EnemyKilledUnpaid(w, j, pd, dd) ==
  LET e == w.enemies[j]
      w1 == createExplosion([w EXCEPT !.enemies[j].active = FALSE], e.x, e.y,
                            IF e.type = "bomber" THEN 30 ELSE 15, e.type = "bomber", pd)
      w2 == [w1 EXCEPT !.stats.score = @ + e.scoreValue,
                       !.stats.enemiesDestroyed = @ + 1,
                       !.stats.shotsHit = @ + 1]
      w3 == IF dd.r1 < 10 THEN [w2 EXCEPT !.powerups = Append(@, NewPowerUp(e, dd))] ELSE w2
  IN IF WaveCleared(w3.stats.enemiesDestroyed)
     THEN [onEvent(w3, "WAVE_CLEARED") EXCEPT !.stats.wave = @ + 1]
     ELSE w3

\* a kill that pays its score value twice in credits
EnemyKilledPaidTwice(w, j, pd, dd) ==
  LET e == w.enemies[j]
      w1 == createExplosion([w EXCEPT !.enemies[j].active = FALSE], e.x, e.y,
                            IF e.type = "bomber" THEN 30 ELSE 15, e.type = "bomber", pd)
      w2 == [w1 EXCEPT !.stats.score = @ + e.scoreValue,
                       !.stats.credits = @ + 2 * e.scoreValue,
                       !.stats.enemiesDestroyed = @ + 1,
                       !.stats.shotsHit = @ + 1]
      w3 == IF dd.r1 < 10 THEN [w2 EXCEPT !.powerups = Append(@, NewPowerUp(e, dd))] ELSE w2
  IN IF WaveCleared(w3.stats.enemiesDestroyed)
     THEN [onEvent(w3, "WAVE_CLEARED") EXCEPT !.stats.wave = @ + 1]
     ELSE w3

\* an enemy brought to hp <= 0 by a player projectile
EnemyKilled(w, j, pd, dd) ==
  LET e == w.enemies[j]
      w1 == createExplosion([w EXCEPT !.enemies[j].active = FALSE], e.x, e.y,
                            IF e.type = "bomber" THEN 30 ELSE 15, e.type = "bomber", pd)
      w2 == [w1 EXCEPT !.stats.score = @ + e.scoreValue,
                       !.stats.credits = @ + e.scoreValue,
                       !.stats.enemiesDestroyed = @ + 1,
                       !.stats.shotsHit = @ + 1]
      w3 == IF dd.r1 < 10 THEN [w2 EXCEPT !.powerups = Append(@, NewPowerUp(e, dd))] ELSE w2
  IN IF WaveCleared(w3.stats.enemiesDestroyed)
     THEN [onEvent(w3, "WAVE_CLEARED") EXCEPT !.stats.wave = @ + 1]
     ELSE w3

\* a collision the pass resolved: projectile i against the player or enemy j,
\* with the active flags the two had when it was resolved
Strike(i, p, target, j, targetActive) ==
  [proj |-> i, owner |-> p.owner, x |-> p.x, y |-> p.y, width |-> p.width,
   height |-> p.height, projActive |-> p.active,
   target |-> target, enemy |-> j, targetActive |-> targetActive]

\* the body run for projectile i and enemy j when their boxes overlap
ProjectileHitsEnemy(w, i, j, pd, dd) ==
  LET p == w.projectiles[i]
      e == w.enemies[j]
      e2 == EnemyProjectileDamage(e, p.damage)
      w1 == [w EXCEPT !.projectiles[i].active = FALSE,
                      !.enemies[j] = e2,
                      !.hits = Append(@, Hit("enemy", "projectile", i, e, p.damage, e2)),
                      !.log.strikes = Append(@, Strike(i, p, "enemy", j, e.active))]
      w2 == createExplosion(w1, p.x, p.y, IF e.shield > 0 THEN 2 ELSE 3, FALSE, pd)
  IN IF e2.hp <= 0
     THEN EnemyKilled(w2, j, pd, dd)
     ELSE [w2 EXCEPT !.stats.shotsHit = @ + 1]

\* an enemy loop that does not skip the enemies already destroyed
RECURSIVE ProjectileVsEnemiesUnguarded(_, _, _, _, _)
ProjectileVsEnemiesUnguarded(w, i, j, pd, dd) ==
  IF j > Len(w.enemies) THEN w
  ELSE LET p == w.projectiles[i]
           e == w.enemies[j]
       IN IF Overlap(p.x, p.y, p.width, p.height, e.x, e.y, e.width, e.height, 5 * U)
          THEN ProjectileVsEnemiesUnguarded(ProjectileHitsEnemy(w, i, j, pd, dd),
                                            i, j + 1, pd, dd)
          ELSE ProjectileVsEnemiesUnguarded(w, i, j + 1, pd, dd)

\* state.enemies.forEach of one player projectile
RECURSIVE ProjectileVsEnemies(_, _, _, _, _)
ProjectileVsEnemies(w, i, j, pd, dd) ==
  IF j > Len(w.enemies) THEN w
  ELSE LET p == w.projectiles[i]
           e == w.enemies[j]
       IN IF /\ e.active
             /\ Overlap(p.x, p.y, p.width, p.height, e.x, e.y, e.width, e.height, 5 * U)
          THEN ProjectileVsEnemies(ProjectileHitsEnemy(w, i, j, pd, dd), i, j + 1, pd, dd)
          ELSE ProjectileVsEnemies(w, i, j + 1, pd, dd)

\* Enemy hits player
ProjectileVsPlayer(w, i, pd) ==
  LET p == w.projectiles[i]
      pl == w.player
  IN IF /\ Vulnerable(w)
        /\ Overlap(p.x, p.y, p.width, p.height, pl.x, pl.y, pl.width, pl.height, 0)
     THEN LET pl2 == PlayerProjectileDamage(pl, p.damage)
              w1 == createExplosion([w EXCEPT !.projectiles[i].active = FALSE],
                                    p.x, p.y, 5, TRUE, pd)
              w2 == [w1 EXCEPT !.player = pl2,
                               !.hits = Append(@, Hit("player", "projectile", i, pl, p.damage, pl2)),
                               !.log.strikes = Append(@, Strike(i, p, "player", 0, TRUE))]
          IN DeathCheck(w2)
     ELSE w

\* Collision: Projectile vs Enemy/Player
RECURSIVE CollisionsFrom(_, _, _, _)
CollisionsFrom(w, i, pd, dd) ==
  IF i > Len(w.projectiles) THEN w
  ELSE IF ~w.projectiles[i].active THEN CollisionsFrom(w, i + 1, pd, dd)
  ELSE IF w.projectiles[i].owner = "player"
       THEN CollisionsFrom(ProjectileVsEnemies(w, i, 1, pd, dd), i + 1, pd, dd)
       ELSE CollisionsFrom(ProjectileVsPlayer(w, i, pd), i + 1, pd, dd)

Collisions(w, pd, dd) == CollisionsFrom(w, 1, pd, dd)

MoveParticle(p) ==
  [p EXCEPT !.x = @ + p.vx, !.y = @ + p.vy, !.life = @ - 1,
            !.active = IF p.life - 1 <= 0 THEN FALSE ELSE @]

UpdateParticles(w) ==
  [w EXCEPT !.particles = [i \in 1..Len(@) |-> MoveParticle(@[i])]]

Active(x) == x.active

Cleanup(w) ==
  [w EXCEPT !.projectiles = SelectSeq(@, Active),
            !.enemies = SelectSeq(@, Active),
            !.particles = SelectSeq(@, Active),
            !.powerups = SelectSeq(@, Active)]

SyncStats(w) ==
  IF w.time % 10 = 0
  THEN [w EXCEPT !.statsUpdates = @ + 1, !.snapshots = Append(@, w.stats.score)]
  ELSE w

\* update(deltaTime) past the gate; rnd holds the draws of Math.random() of
\* this tick: spawn, particles, powerup drop
Simulate(w, dt, mode, ks, mouse, rnd) ==
  LET w1 == ShakeDecay(AdvanceTime(w, dt))
      w2 == ShieldRegen(PlayerMovement(w1, mode, ks, mouse))
      w3 == SpawnEnemies(AutoFire(w2), rnd.spawn)
      w4 == UpdatePowerups(UpdateProjectiles(w3))
      w5 == UpdateEnemies(w4, rnd.particle)
      w6 == Collisions(w5, rnd.particle, rnd.drop)
  IN SyncStats(Cleanup(UpdateParticles(w6)))

\* update(deltaTime): Halt logic if paused
\* an update without its gate on the session state
updateUngated(w, state, dt, mode, ks, mouse, rnd) ==
  Simulate(w, dt, mode, ks, mouse, rnd)

\* an update that advances the clock before it looks at the session state
updateClockFirst(w, state, dt, mode, ks, mouse, rnd) ==
  IF state # "PLAYING" THEN [w EXCEPT !.time = @ + dt] ELSE Simulate(w, dt, mode, ks, mouse, rnd)

update(w, state, dt, mode, ks, mouse, rnd) ==
  IF state # "PLAYING" THEN w ELSE Simulate(w, dt, mode, ks, mouse, rnd)

\* ------------------------------------------------------------------- inputs
\* frame deltas (ms) handed to loop by requestAnimationFrame
DeltaTimes == {16, 5000}

\* pointer positions reported by mousemove (the pointer may leave the canvas)
MouseTargets == {[x |-> 300 * U, y |-> (0 - 2100) * U]}

\* key codes pressed and released
KeyCodes == {"Space"}

MovementKeys ==
  {"KeyW", "KeyA", "KeyS", "KeyD", "ArrowUp", "ArrowLeft", "ArrowDown", "ArrowRight"}

\* draws of the spawn block: type, x, vel.x, vel.y, pattern
SpawnDraws ==
  {[rand |-> 50, rx |-> 50, rvx |-> 50, rvy |-> 95, rp |-> 0],
   [rand |-> 85, rx |-> 55, rvx |-> 50, rvy |-> 95, rp |-> 40]}

\* draws of createExplosion
ParticleDraws == {[rvx |-> 50, rvy |-> 50, rlife |-> 0]}

\* draws of the powerup drop: drop or not, then the nested type draws
DropDraws ==
  {[r1 |-> 50, r2 |-> 50, r3 |-> 50],
   [r1 |-> 5, r2 |-> 50, r3 |-> 50]}

TickDraws == [spawn : SpawnDraws, particle : ParticleDraws, drop : DropDraws]

\* ------------------------------------------------------------------ actions
\* resetGame
resetGame ==
  /\ gameTime' = 0
  /\ player' = NewPlayer(InvulnerableMs)
  /\ enemies' = <<>>
  /\ projectiles' = <<>>
  /\ particles' = <<>>
  /\ powerups' = <<>>
  /\ stats' = NewStats
  /\ shake' = 0
  /\ spawnTimer' = 0

\* the effect of GameCanvas on [gameState]: only reset if starting a new game
GameStateEffect ==
  IF gameState' = "PLAYING" /\ gameState # "PLAYING" /\ stats.timeSurvived = 0
  THEN resetGame
  ELSE UNCHANGED world

\* startGame up to its await: the button of the MENU and GAME_OVER overlays
StartClick ==
  /\ gameState \in {"MENU", "GAME_OVER"}
  /\ gameState = "MENU" => pendingStarts = 0
  /\ pendingStarts < MaxPendingStarts
  /\ pendingStarts' = pendingStarts + 1
  /\ UNCHANGED <<gameState, world, input, timers, history>>

\* startGame after the briefing has resolved: setGameState(PLAYING)
startGame ==
  /\ pendingStarts > 0
  /\ pendingStarts' = pendingStarts - 1
  /\ gameState' = "PLAYING"
  /\ GameStateEffect
  /\ session' = IF gameState \in {"MENU", "GAME_OVER"} THEN session + 1 ELSE session
  /\ UNCHANGED <<input, timers, outputs, idle, ticks, narrative>>

\* a shop toggle that also opens the shop over the pause overlay
toggleShopFromPause ==
  /\ gameState' = CASE gameState \in {"PLAYING", "PAUSED"} -> "SHOP"
                     [] gameState = "SHOP" -> "PLAYING"
                     [] OTHER -> gameState
  /\ GameStateEffect
  /\ request' = IF gameState = "SHOP" THEN "none" ELSE request
  /\ result' = IF gameState = "SHOP" THEN "none" ELSE result
  /\ UNCHANGED <<pendingStarts, input, timers, session, events, hits, endGameCalls,
                 log, statsUpdates, lastFrame, idle, ticks, narrative>>

toggleShop ==
  /\ gameState' = CASE gameState = "PLAYING" -> "SHOP"
                     [] gameState = "SHOP" -> "PLAYING"
                     [] OTHER -> gameState
  /\ GameStateEffect
  /\ request' = IF gameState = "SHOP" THEN "none" ELSE request
  /\ result' = IF gameState = "SHOP" THEN "none" ELSE result
  /\ UNCHANGED <<pendingStarts, input, timers, session, events, hits, endGameCalls,
                 log, statsUpdates, lastFrame, idle, ticks, narrative>>

togglePause ==
  /\ gameState' = CASE gameState = "PLAYING" -> "PAUSED"
                     [] gameState = "PAUSED" -> "PLAYING"
                     [] OTHER -> gameState
  /\ GameStateEffect
  /\ UNCHANGED <<pendingStarts, input, timers, session, outputs, idle, ticks, narrative>>

handleMouseMove ==
  \E pos \in MouseTargets :
    /\ inputMode' = "MOUSE"
    /\ mousePos' = pos
    /\ UNCHANGED <<gameState, pendingStarts, world, keys, timers, history>>

handleKeyDown ==
  \E code \in KeyCodes \ keys :
    /\ keys' = keys \cup {code}
    /\ inputMode' = IF code \in MovementKeys THEN "KEYBOARD" ELSE inputMode
    /\ UNCHANGED <<gameState, pendingStarts, world, mousePos, timers, history>>

handleKeyUp ==
  \E code \in keys :
    /\ keys' = keys \ {code}
    /\ UNCHANGED <<gameState, pendingStarts, world, inputMode, mousePos, timers, history>>

\* a repair that heals past maxHp
RepairedHpUnclamped(p) == p.hp + RepairHeal * U

\* Math.min(hp + 50, maxHp)
RepairedHp(p) == Min(p.hp + RepairHeal * U, p.maxHp)

\* a cost taken from the level the purchase leads to
WeaponCostAfter(level) == (level + 1) * WeaponCostPerLevel

\* const cost = weaponLevel * 2500
WeaponCost(level) == level * WeaponCostPerLevel

\* the onStatsUpdate prop of the App, as rendered in the session state `state`
\* with `shown` as the score of the stats the App holds: what it does with a
\* snapshot of score `score`
onStatsUpdate(state, shown, score) ==
  [setStats |-> state \in {"PLAYING", "SHOP", "PAUSED"},
   handleGameOver |-> state = "GAME_OVER" /\ shown # score]

\* the score of the stats the App holds when snapshots reach it: that of a
\* snapshot it kept earlier
ShownScores(snapshots) == IF snapshots = <<>> THEN {0} ELSE {0, stats.score}

\* the handleGameOver calls made for the snapshots of one step, all of them
\* handed to the onStatsUpdate of the render the step started in
GameOverCalls(state, shown, snapshots) ==
  Cardinality({k \in DOMAIN snapshots :
                 onStatsUpdate(state, shown, snapshots[k]).handleGameOver})

\* a purchase that takes the credits of a repair before it looks at the hull
purchaseUpgradeChargeFirst(type) ==
  /\ IF type = "REPAIR" /\ stats.credits >= RepairCost
     THEN /\ stats' = [stats EXCEPT !.credits = @ - RepairCost]
          /\ player' = [player EXCEPT !.hp = RepairedHp(player)]
          /\ events' = IF player.hp < player.maxHp THEN <<"REPAIR_COMPLETE">> ELSE <<>>
          /\ statsUpdates' = IF player.hp < player.maxHp THEN 1 ELSE 0
          /\ result' = IF player.hp < player.maxHp THEN "true" ELSE "false"
     ELSE IF /\ type = "WEAPON"
             /\ stats.credits >= WeaponCost(player.weaponLevel)
             /\ player.weaponLevel < MaxWeaponLevel
     THEN /\ stats' = [stats EXCEPT !.credits = @ - WeaponCost(player.weaponLevel),
                                     !.weaponLevel = player.weaponLevel + 1]
          /\ player' = [player EXCEPT !.weaponLevel = @ + 1]
          /\ events' = <<"WEAPON_UPGRADED">>
          /\ statsUpdates' = 1
          /\ result' = "true"
     ELSE /\ UNCHANGED <<stats, player>>
          /\ events' = <<>>
          /\ statsUpdates' = 0
          /\ result' = "false"
  /\ request' = type
  /\ hits' = <<>>
  /\ log' = EmptyLog
  /\ endGameCalls' = 0
  /\ LET snapshots == [k \in 1..statsUpdates' |-> stats'.score]
     IN \E shown \in ShownScores(snapshots) :
          debriefRequests' = debriefRequests + GameOverCalls(gameState, shown, snapshots)
  /\ UNCHANGED <<gameState, pendingStarts, gameTime, spawnTimer, enemies, projectiles,
                 particles, powerups, shake, input, timers, session, lastFrame, idle, ticks,
                 pendingUpdates, settled>>

\* purchaseUpgrade(type): the new credits, hp and weapon level, and the result
purchaseUpgrade(type) ==
  /\ IF type = "REPAIR" /\ stats.credits >= RepairCost /\ player.hp < player.maxHp
     THEN /\ stats' = [stats EXCEPT !.credits = @ - RepairCost]
          /\ player' = [player EXCEPT !.hp = RepairedHp(player)]
          /\ events' = <<"REPAIR_COMPLETE">>
          /\ statsUpdates' = 1
          /\ result' = "true"
     ELSE IF /\ type = "WEAPON"
             /\ stats.credits >= WeaponCost(player.weaponLevel)
             /\ player.weaponLevel < MaxWeaponLevel
     THEN /\ stats' = [stats EXCEPT !.credits = @ - WeaponCost(player.weaponLevel),
                                     !.weaponLevel = player.weaponLevel + 1]
          /\ player' = [player EXCEPT !.weaponLevel = @ + 1]
          /\ events' = <<"WEAPON_UPGRADED">>
          /\ statsUpdates' = 1
          /\ result' = "true"
     ELSE /\ UNCHANGED <<stats, player>>
          /\ events' = <<>>
          /\ statsUpdates' = 0
          /\ result' = "false"
  /\ request' = type
  /\ hits' = <<>>
  /\ log' = EmptyLog
  /\ endGameCalls' = 0
  /\ LET snapshots == [k \in 1..statsUpdates' |-> stats'.score]
     IN \E shown \in ShownScores(snapshots) :
          debriefRequests' = debriefRequests + GameOverCalls(gameState, shown, snapshots)
  /\ UNCHANGED <<gameState, pendingStarts, gameTime, spawnTimer, enemies, projectiles,
                 particles, powerups, shake, input, timers, session, lastFrame, idle, ticks,
                 pendingUpdates, settled>>

\* purchaseItem: a button of the shop overlay
purchaseItem ==
  /\ gameState = "SHOP"
  /\ \E type \in ShopItems : purchaseUpgrade(type)

\* the refs as the record update works on
World ==
  [time |-> gameTime, spawnTimer |-> spawnTimer, player |-> player, enemies |-> enemies,
   projectiles |-> projectiles, particles |-> particles, powerups |-> powerups,
   stats |-> stats, shake |-> shake,
   events |-> <<>>, hits |-> <<>>, log |-> EmptyLog, endGameCalls |-> 0, statsUpdates |-> 0, newTimers |-> 0,
   snapshots |-> <<>>]

Elapse(ts, dt) == [i \in 1..Len(ts) |-> [ts[i] EXCEPT !.left = @ - dt]]

NoTimerDue == \A i \in 1..Len(timers) : timers[i].left > 0

\* handleGameEvent: the generateTacticalUpdate calls one event starts, talk
\* being the draw of Math.random() > 0.7
handleGameEvent(event, talk) ==
  IF event = "HULL_DAMAGE" /\ talk > 70 THEN 1
  ELSE IF event = "WAVE_CLEARED" THEN 1
  ELSE 0

\* the calls started by the events of one tick, none of which is awaited
RECURSIVE TacticalCalls(_, _)
TacticalCalls(evs, talk) ==
  IF evs = <<>> THEN 0
  ELSE handleGameEvent(Head(evs), talk) + TacticalCalls(Tail(evs), talk)

\* draws of handleGameEvent: no update asked for, or one
TalkDraws == {50, 80}

\* the draw that asks for an update at every HULL_DAMAGE
Talkative == {80}

\* the draws taken by the events of a tick: one when an event asks for it
TalkDrawsOf(evs, talks) ==
  IF \E k \in DOMAIN evs : evs[k] = "HULL_DAMAGE" THEN talks ELSE {0}

\* one animation frame, dt after the previous one, of a session that is
\* followed for `limit` PLAYING ticks, with the draws of handleGameEvent
\* taken from `talks` and those of the tick from `draws`
frame(limit, talks, draws) ==
  \E dt \in DeltaTimes, rnd \in draws :
    /\ NoTimerDue
    /\ IF gameState = "PLAYING" THEN ticks < limit ELSE idle < MaxIdleFrames
    /\ LET w == update(World, gameState, dt, inputMode, keys, mousePos, rnd)
       IN /\ gameTime' = w.time
          /\ spawnTimer' = w.spawnTimer
          /\ player' = w.player
          /\ enemies' = w.enemies
          /\ projectiles' = w.projectiles
          /\ particles' = w.particles
          /\ powerups' = w.powerups
          /\ stats' = w.stats
          /\ shake' = w.shake
          /\ gameState' = IF w.endGameCalls > 0 THEN "GAME_OVER" ELSE gameState
          /\ timers' = Elapse(timers, dt)
                        \o [i \in 1..w.newTimers |-> [left |-> SpeedBuffMs, session |-> session]]
          /\ IF gameState = "PLAYING"
             THEN /\ events' = w.events
                  /\ hits' = w.hits
                  /\ log' = w.log
                  /\ endGameCalls' = w.endGameCalls
                  /\ statsUpdates' = w.statsUpdates
                  /\ ticks' = ticks + 1
                  /\ idle' = idle
                  /\ \E talk \in TalkDrawsOf(w.events, talks) :
                       pendingUpdates' = pendingUpdates + TacticalCalls(w.events, talk)
             ELSE /\ UNCHANGED <<events, hits, log, endGameCalls, statsUpdates, ticks,
                                 pendingUpdates>>
                  /\ idle' = idle + 1
          /\ \E shown \in ShownScores(w.snapshots) :
               debriefRequests' = debriefRequests
                                    + GameOverCalls(gameState, shown, w.snapshots)
    /\ lastFrame' = gameState
    /\ UNCHANGED <<pendingStarts, input, session, request, result, settled>>

\* loop: the requestAnimationFrame callback
loop == frame(MaxTicks, Talkative, TickDraws)

\* the setTimeout callback of a SPEED pickup, 5000 ms after it
SpeedExpiry ==
  /\ timers # <<>>
  /\ Head(timers).left <= 0
  /\ timers' = Tail(timers)
  /\ player' = [player EXCEPT !.speedMultiplier = U]
  /\ UNCHANGED <<gameState, pendingStarts, gameTime, spawnTimer, enemies, projectiles,
                 particles, powerups, stats, shake, input, history>>

Next ==
  \/ StartClick
  \/ startGame
  \/ toggleShop
  \/ togglePause
  \/ handleMouseMove
  \/ handleKeyDown
  \/ handleKeyUp
  \/ purchaseItem
  \/ loop
  \/ SpeedExpiry

Spec == Init /\ [][Next]_vars

\* ------------------------------------------------- states in mid session
\* States a session reaches after more ticks than MaxTicks allows from Init.
\* Each is built from the literals the code pushes (NewPlayer, NewEnemy,
\* EnemyProjectile, NewPowerUp) moved along their velocities.
TopTarget == [x |-> 300 * U, y |-> (0 - 2100) * U]

\* hull and shield as earlier hits and regeneration leave them
Healthy == [hp |-> 100 * U, shield |-> 50 * U]

Worn == [hp |-> 100 * U, shield |-> 20 * U]

Critical == [hp |-> 30 * U, shield |-> 0]

\* a straight-flying enemy n ticks after its spawn
Aged(e, n) == [e EXCEPT !.x = @ + n * e.vx, !.y = @ + n * e.vy]

AlignedDrone == [rand |-> 50, rx |-> 50, rvx |-> 50, rvy |-> 95, rp |-> 0]

OffsetDrone == [rand |-> 50, rx |-> 55, rvx |-> 50, rvy |-> 95, rp |-> 0]

\* five fighters shot down during wave 1, twenty per wave before
MidStats(time, wave, level) ==
  [score |-> 1000 + (wave - 1) * 4000, credits |-> 1000, wave |-> wave,
   enemiesDestroyed |-> 5 + (wave - 1) * 20,
   shotsFired |-> 120 * wave, shotsHit |-> 80 * wave, timeSurvived |-> time,
   weaponLevel |-> level]

MidPlayer(x, y, c, time, level, speed) ==
  [NewPlayer(InvulnerableMs) EXCEPT !.x = x, !.y = y, !.hp = c.hp, !.shield = c.shield,
                                    !.lastFired = time - 160, !.weaponLevel = level,
                                    !.speedMultiplier = speed]

\* the player holds the top edge: an enemy about to touch it, two enemies in
\* its line of fire and a SPEED powerup about to be picked up, at simulation
\* time `time` (inside or past the invulnerability window)
TopCombat(c, time) ==
  /\ gameTime = time
  /\ spawnTimer = time - 500
  /\ mousePos = TopTarget
  /\ player = MidPlayer(300 * U, 20 * U, c, time, 1, U)
  /\ enemies = <<Aged(NewEnemy(1, OffsetDrone), 8),
                 Aged(NewEnemy(1, AlignedDrone), 2),
                 Aged(NewEnemy(1, AlignedDrone), 1)>>
  /\ projectiles = <<>>
  /\ powerups = <<[NewPowerUp([x |-> 300 * U, y |-> (0 - 11) * U],
                              [r1 |-> 5, r2 |-> 50, r3 |-> 50]) EXCEPT !.y = (0 - 11) * U]>>
  /\ stats = MidStats(time, 1, 1)
  /\ timers = <<>>

\* wave 3: a shielded guardian in the line of fire, a second one about to
\* touch the player, and a speed buff of this session about to expire
GuardianCombat(c, shield) ==
  /\ gameTime = 60000
  /\ spawnTimer = 60000 - 500
  /\ mousePos = TopTarget
  /\ player = MidPlayer(300 * U, 20 * U, c, 60000, 2, (3 * U) \div 2)
  /\ enemies = <<[NewEnemy(3, [rand |-> 95, rx |-> 50, rvx |-> 50, rvy |-> 0, rp |-> 0])
                    EXCEPT !.y = (0 - 30) * U, !.vx = 0, !.vy = U \div 2, !.shield = shield],
                 [NewEnemy(3, [rand |-> 95, rx |-> 55, rvx |-> 50, rvy |-> 0, rp |-> 0])
                    EXCEPT !.y = (0 - 18) * U - 5, !.vx = 0, !.vy = U \div 2]>>
  /\ projectiles = <<>>
  /\ powerups = <<>>
  /\ stats = MidStats(60000, 3, 2)
  /\ timers = <<[left |-> 16, session |-> 1]>>

\* the player still at its start position with an enemy shot about to hit it
\* and an enemy about to touch it
UnderFire(c, time) ==
  /\ gameTime = time
  /\ spawnTimer = time - 500
  /\ mousePos = InitialMousePos
  /\ player = MidPlayer(300 * U, 700 * U, c, time, 1, U)
  /\ enemies = <<Aged(NewEnemy(1, OffsetDrone), 235)>>
  /\ projectiles = <<[EnemyProjectile([x |-> 300 * U, y |-> 0], 0, 6, 6, 12,
                                      EnemyDamage(1), FALSE, FALSE)
                        EXCEPT !.y = 670 * U]>>
  /\ powerups = <<>>
  /\ stats = MidStats(time, 1, 1)
  /\ timers = <<>>

InitMidSession ==
  /\ gameState = "PLAYING"
  /\ pendingStarts = 0
  /\ inputMode = "MOUSE"
  /\ keys = {}
  /\ particles = <<>>
  /\ shake = 0
  /\ session = 1
  /\ events = <<>>
  /\ hits = <<>>
  /\ log = EmptyLog
  /\ pendingUpdates = 0
  /\ settled = NothingSettled
  /\ debriefRequests = 0
  /\ endGameCalls = 0
  /\ statsUpdates = 0
  /\ request = "none"
  /\ result = "none"
  /\ lastFrame = "PLAYING"
  /\ idle = 0
  /\ ticks = 0
  /\ \/ TopCombat(Healthy, 2000)
     \/ TopCombat(Worn, 4000)
     \/ TopCombat(Critical, 4000)
     \/ GuardianCombat(Healthy, 20 * U)
     \/ UnderFire(Healthy, 2900)
     \/ UnderFire(Worn, 5000)

\* a session from its construction, and sessions picked up in their middle
SpecMid == (Init \/ InitMidSession) /\ [][Next]_vars

\* --------------------------------------------- purchaseUpgrade on its own
\* credits around each cost, and the hulls a shop visit meets
ShopCredits == {0, 999, 1000, 2499, 2500, 4999, 5000, 7499, 7500, 10000}

ShopHulls == {30 * U, 60 * U, 100 * U}

InitShop ==
  /\ gameState = "SHOP"
  /\ pendingStarts = 0
  /\ inputMode = "MOUSE"
  /\ keys = {}
  /\ mousePos = InitialMousePos
  /\ gameTime = 30000
  /\ spawnTimer = 30000 - 500
  /\ enemies = <<>>
  /\ projectiles = <<>>
  /\ particles = <<>>
  /\ powerups = <<>>
  /\ shake = 0
  /\ timers = <<>>
  /\ session = 1
  /\ events = <<>>
  /\ hits = <<>>
  /\ log = EmptyLog
  /\ pendingUpdates = 0
  /\ settled = NothingSettled
  /\ debriefRequests = 0
  /\ endGameCalls = 0
  /\ statsUpdates = 0
  /\ request = "none"
  /\ result = "none"
  /\ lastFrame = "PLAYING"
  /\ idle = 0
  /\ ticks = 0
  /\ \E credits \in ShopCredits, level \in 1..MaxWeaponLevel, hp \in ShopHulls :
       /\ player = MidPlayer(300 * U, 700 * U, [hp |-> hp, shield |-> 50 * U], 30000, level, U)
       /\ stats = [MidStats(30000, 3, level) EXCEPT !.credits = credits,
                                                    !.score = Max(@, credits)]

NextShop == purchaseItem

SpecShop == InitShop /\ [][NextShop]_vars

\* the end of a wave: the player at the top edge past its invulnerability,
\* with weapon level `level` and `destroyed` kills so far, and two damaged
\* drones in its line of fire
Skirmish(level, destroyed) ==
  /\ gameTime = 4000
  /\ spawnTimer = 4000 - 500
  /\ mousePos = TopTarget
  /\ player = MidPlayer(300 * U, 20 * U, Healthy, 4000, level, U)
  /\ enemies = <<[Aged(NewEnemy(1, AlignedDrone), 2) EXCEPT !.hp = 10 * U],
                 [Aged(NewEnemy(1, AlignedDrone), 1) EXCEPT !.hp = 10 * U]>>
  /\ projectiles = <<>>
  /\ powerups = <<>>
  /\ stats = [MidStats(4000, 1, level) EXCEPT !.enemiesDestroyed = destroyed]
  /\ timers = <<>>

\* a fighter spawned at the left edge 162 ticks ago that drifted out of the
\* playfield and is due for its second shot, a player projectile four ticks
\* after it was fired from the top edge, and a mine two ticks from the bottom
\* bound
Straggler ==
  /\ gameTime = 4000
  /\ spawnTimer = 4000 - 500
  /\ mousePos = TopTarget
  /\ player = MidPlayer(300 * U, 20 * U, Healthy, 4000, 1, U)
  /\ enemies = <<[Aged(NewEnemy(1, [rand |-> 70, rx |-> 0, rvx |-> 0, rvy |-> 0, rp |-> 0]), 162)
                    EXCEPT !.lastFired = 4000 - 2000]>>
  /\ projectiles = <<[createProjectile([x |-> 300 * U, y |-> 20 * U], 0, -20, 0, -12)
                        EXCEPT !.y = (0 - 48) * U],
                     [EnemyProjectile([x |-> 100 * U, y |-> 0], 0, 0, 15, 15, 40 * U, FALSE, TRUE)
                        EXCEPT !.y = 848 * U + 10, !.vy = U]>>
  /\ powerups = <<>>
  /\ stats = MidStats(4000, 1, 1)
  /\ timers = <<>>

\* a quiet stretch after a hit: the shield has regenerated from 20 to one step
\* below its maximum, and the next tick is one that regenerates
Recovering ==
  /\ gameTime = 4000 - 16
  /\ spawnTimer = 4000 - 500
  /\ mousePos = InitialMousePos
  /\ player = [MidPlayer(300 * U, 700 * U, [hp |-> 100 * U, shield |-> 50 * U - 1],
                         4000, 1, U) EXCEPT !.shieldRounded = TRUE]
  /\ enemies = <<>>
  /\ projectiles = <<>>
  /\ powerups = <<>>
  /\ stats = MidStats(4000 - 16, 1, 1)
  /\ timers = <<>>

\* a speed buff picked up 4984 ms ago, and a second SPEED powerup about to be
\* picked up
Boosted ==
  /\ gameTime = 20000
  /\ spawnTimer = 20000 - 500
  /\ mousePos = TopTarget
  /\ player = MidPlayer(300 * U, 20 * U, Healthy, 20000, 1, (3 * U) \div 2)
  /\ enemies = <<>>
  /\ projectiles = <<>>
  /\ powerups = <<[NewPowerUp([x |-> 300 * U, y |-> (0 - 11) * U],
                              [r1 |-> 5, r2 |-> 50, r3 |-> 50]) EXCEPT !.y = (0 - 11) * U]>>
  /\ stats = MidStats(20000, 1, 1)
  /\ timers = <<[left |-> 16, session |-> 1]>>

\* the common part of a session picked up while it is PLAYING
Playing ==
  /\ gameState = "PLAYING"
  /\ pendingStarts = 0
  /\ inputMode = "MOUSE"
  /\ keys = {}
  /\ particles = <<>>
  /\ shake = 0
  /\ session = 1
  /\ events = <<>>
  /\ hits = <<>>
  /\ log = EmptyLog
  /\ pendingUpdates = 0
  /\ settled = NothingSettled
  /\ debriefRequests = 0
  /\ endGameCalls = 0
  /\ statsUpdates = 0
  /\ request = "none"
  /\ result = "none"
  /\ lastFrame = "PLAYING"
  /\ idle = 0
  /\ ticks = 0

\* combat situations followed tick by tick
InitTick ==
  /\ Playing
  /\ \/ TopCombat(Healthy, 2000)
     \/ TopCombat(Critical, 4000)
     \/ \E shield \in {0, 20 * U} : GuardianCombat(Healthy, shield)
     \/ UnderFire(Worn, 5000)
     \/ UnderFire(Critical, 5000)
     \/ Straggler
     \/ Recovering
     \/ Boosted
     \/ \E level \in 1..MaxWeaponLevel, destroyed \in {18, 19} : Skirmish(level, destroyed)

\* the animation frames of a combat run and the timer callbacks between them
loopRun == frame(MaxRun, TalkDraws, TickDraws)

NextTick ==
  \/ loopRun
  \/ SpeedExpiry

SpecTick == InitTick /\ [][NextTick]_vars

\* a collaborator that calls the handle directly, with any kind its type accepts
callPurchaseUpgrade == \E type \in UpgradeKinds : purchaseUpgrade(type)

NextHandle == callPurchaseUpgrade

SpecHandle == InitShop /\ [][NextHandle]_vars

\* ------------------------------------------------------------------ spawning
\* waves on both sides of the type thresholds and of the floor of the spawn
\* interval
SpawnWaves == {1, 2, 3, 16, 17}

\* type draws on both sides of every threshold of the spawn block
SpawnRands == {60, 61, 80, 81, 90, 91, 95, 96}

SpawnTypeDraws ==
  [spawn : {[rand |-> r, rx |-> 50, rvx |-> 50, rvy |-> 95, rp |-> 0] : r \in SpawnRands},
   particle : ParticleDraws,
   drop : {[r1 |-> 50, r2 |-> 50, r3 |-> 50]}]

\* an empty sky during wave `wave`, `since` ms of simulation time after the
\* last spawn
Patrol(wave, since) ==
  /\ gameTime = 60000
  /\ spawnTimer = 60000 - since
  /\ mousePos = InitialMousePos
  /\ player = MidPlayer(300 * U, 700 * U, Healthy, 60000, 1, U)
  /\ enemies = <<>>
  /\ projectiles = <<>>
  /\ powerups = <<>>
  /\ stats = [MidStats(60000, wave, 1) EXCEPT !.enemiesDestroyed = (wave - 1) * 20]
  /\ timers = <<>>

\* the next frame of 16 ms brings the time since the last spawn to the spawn
\* interval exactly, or one ms beyond it
InitSpawn ==
  /\ Playing
  /\ \E wave \in SpawnWaves, over \in {0, 1} :
       Patrol(wave, SpawnInterval(wave) - 16 + over)

loopSpawn == frame(MaxRun, Talkative, SpawnTypeDraws)

NextSpawn == loopSpawn

SpecSpawn == InitSpawn /\ [][NextSpawn]_vars

\* ------------------------------------------------------------ enemy fire
\* an enemy of the type of draw `rand`, spawned in wave `wave`, now at (x, y),
\* falling by one unit a tick, that fired last at `fired`
Gunner(wave, rand, x, y, fired) ==
  [NewEnemy(wave, [rand |-> rand, rx |-> 50, rvx |-> 50, rvy |-> 0, rp |-> 0])
     EXCEPT !.x = x * U, !.y = y, !.vx = 0, !.vy = U, !.lastFired = fired]

\* one enemy of every type that wave `wave` can hold in view high above the
\* player, a fighter and a bomber on the edges of the view, all of them `since`
\* ms after their last shot
Gunline(wave, since) ==
  /\ gameTime = 60000
  /\ spawnTimer = 60000 - 500
  /\ mousePos = InitialMousePos
  /\ player = MidPlayer(300 * U, 700 * U, Healthy, 60000, 1, U)
  /\ enemies = <<Gunner(1, 50, 50, 100 * U, 60000 - since),
                 Gunner(1, 70, 150, 100 * U, 60000 - since),
                 Gunner(1, 85, 250, 100 * U, 60000 - since),
                 Gunner(1, 96, 350, 100 * U, 60000 - since),
                 Gunner(2, 85, 450, 100 * U, 60000 - since),
                 Gunner(1, 70, 100, 0 - U, 60000 - since),
                 Gunner(1, 96, 500, (CANVAS_HEIGHT - 50) * U - U, 60000 - since)>>
                \o (IF wave >= 3 THEN <<Gunner(3, 91, 550, 100 * U, 60000 - since)>>
                    ELSE <<>>)
  /\ projectiles = <<>>
  /\ powerups = <<>>
  /\ stats = [MidStats(60000, wave, 1) EXCEPT !.enemiesDestroyed = (wave - 1) * 20]
  /\ timers = <<>>

\* the next frame of 16 ms brings the time since the last shots to each fire
\* interval exactly, or one ms beyond it
InitVolley ==
  /\ Playing
  /\ \E wave \in {2, 3}, interval \in {2000, 2500, 3000}, over \in {0, 1} :
       Gunline(wave, interval - 16 + over)

SpecVolley == InitVolley /\ [][loopRun]_vars

\* ---------------------------------------------------- pickups and removals
PowerUpTypes == {"WEAPON", "SHIELD", "SPEED"}

\* the player holds the top edge past its invulnerability with weapon level
\* `level`: a powerup of type `type` about to be picked up, a drone about to
\* touch the player, two damaged drones in its line of fire, and two drones at
\* the bottom bound, one of them about to cross it
Salvage(type, level, c) ==
  /\ gameTime = 4000
  /\ spawnTimer = 4000 - 500
  /\ mousePos = TopTarget
  /\ player = MidPlayer(300 * U, 20 * U, c, 4000, level, U)
  /\ enemies = <<Aged(NewEnemy(1, OffsetDrone), 8),
                 [Aged(NewEnemy(1, AlignedDrone), 2) EXCEPT !.hp = 10 * U],
                 [Aged(NewEnemy(1, AlignedDrone), 1) EXCEPT !.hp = 10 * U],
                 Gunner(1, 50, 100, (CANVAS_HEIGHT + 50) * U, 4000 - 500),
                 Gunner(1, 50, 500, (CANVAS_HEIGHT + 50) * U - U, 4000 - 500)>>
  /\ projectiles = <<>>
  /\ powerups = <<[x |-> 300 * U, y |-> (0 - 11) * U, width |-> 20 * U,
                   height |-> 20 * U, type |-> type, active |-> TRUE]>>
  /\ stats = MidStats(4000, 1, level)
  /\ timers = <<>>

\* wave 3, the player at its start position: a shielded guardian about to
\* touch it on its left, and on its right a drone and an enemy shot that pass
\* it at `gap` (in units of 0.05) from its box
Brush(gap) ==
  /\ gameTime = 60000
  /\ spawnTimer = 60000 - 500
  /\ mousePos = InitialMousePos
  /\ player = MidPlayer(300 * U, 700 * U, Healthy, 60000, 1, U)
  /\ enemies = <<Gunner(3, 91, 265, 699 * U, 60000 - 500),
                 [Gunner(1, 50, 335, 699 * U, 60000 - 500) EXCEPT !.x = 335 * U + gap]>>
  /\ projectiles = <<[EnemyProjectile([x |-> 323 * U + gap, y |-> 0], 0, 6, 6, 12,
                                      EnemyDamage(3), FALSE, FALSE)
                        EXCEPT !.y = 694 * U]>>
  /\ powerups = <<>>
  /\ stats = [MidStats(60000, 3, 1) EXCEPT !.enemiesDestroyed = 40]
  /\ timers = <<>>

InitSalvage ==
  /\ Playing
  /\ \/ \E type \in PowerUpTypes, level \in {3, 4}, c \in {Healthy, Worn, Critical} :
          Salvage(type, level, c)
     \/ \E gap \in {0 - 1, 0, 2 * U} : Brush(gap)

SpecSalvage == InitSalvage /\ [][NextTick]_vars

\* ------------------------------------------------------------ move intents
\* where the player is: in two opposite corners of its range and inside it
MovePositions ==
  {[x |-> 20 * U, y |-> 20 * U], [x |-> 580 * U, y |-> 780 * U],
   [x |-> 300 * U, y |-> 400 * U]}

\* move intents: held keys (straight, diagonal, both keys of an axis), and
\* pointer and gaze targets outside the canvas on every side
MoveIntents ==
  {[mode |-> "KEYBOARD", keys |-> {"KeyW", "KeyA"}, target |-> InitialMousePos],
   [mode |-> "KEYBOARD", keys |-> {"ArrowDown", "ArrowRight"}, target |-> InitialMousePos],
   [mode |-> "KEYBOARD", keys |-> {"KeyD", "ArrowLeft", "KeyS"}, target |-> InitialMousePos],
   [mode |-> "MOUSE", keys |-> {}, target |-> [x |-> (0 - 500) * U, y |-> (0 - 500) * U]],
   [mode |-> "MOUSE", keys |-> {"KeyW"}, target |-> [x |-> 700 * U, y |-> 900 * U]],
   [mode |-> "EYE", keys |-> {}, target |-> [x |-> 5000 * U, y |-> (0 - 100) * U]]}

\* the draws of a tick in which nothing is shot down
MoveDraws ==
  [spawn : {AlignedDrone}, particle : ParticleDraws, drop : {[r1 |-> 50, r2 |-> 50, r3 |-> 50]}]

\* an empty sky, the player at `pos` with speedMultiplier `speed` (a buff has
\* its expiry pending) and the move intent `intent`
Cruise(pos, intent, speed) ==
  /\ gameState = "PLAYING"
  /\ pendingStarts = 0
  /\ inputMode = intent.mode
  /\ keys = intent.keys
  /\ mousePos = intent.target
  /\ gameTime = 4000
  /\ spawnTimer = 4000 - 500
  /\ player = MidPlayer(pos.x, pos.y, Healthy, 4000, 1, speed)
  /\ enemies = <<>>
  /\ projectiles = <<>>
  /\ particles = <<>>
  /\ powerups = <<>>
  /\ stats = MidStats(4000, 1, 1)
  /\ shake = 0
  /\ timers = IF speed = U THEN <<>> ELSE <<[left |-> 2000, session |-> 1]>>
  /\ session = 1
  /\ events = <<>>
  /\ hits = <<>>
  /\ log = EmptyLog
  /\ pendingUpdates = 0
  /\ settled = NothingSettled
  /\ debriefRequests = 0
  /\ endGameCalls = 0
  /\ statsUpdates = 0
  /\ request = "none"
  /\ result = "none"
  /\ lastFrame = "PLAYING"
  /\ idle = 0
  /\ ticks = 0

InitMove ==
  \E pos \in MovePositions, intent \in MoveIntents, speed \in {U, (3 * U) \div 2} :
    Cruise(pos, intent, speed)

loopMove == frame(MaxRun, Talkative, MoveDraws)

NextMove ==
  \/ loopMove
  \/ SpeedExpiry

SpecMove == InitMove /\ [][NextMove]_vars

\* ------------------------------------------------- a session and its shop
\* wave 3, every shot so far a hit and nothing bought: the player holds the top
\* edge with weapon level `level` and the credits of a WEAPON purchase and a
\* repair, a speed buff about to expire, a
\* WEAPON powerup about to be picked up, a drone about to touch the player and
\* two damaged drones in its line of fire
Armory(level, c) ==
  /\ gameTime = 60000
  /\ spawnTimer = 60000 - 500
  /\ mousePos = TopTarget
  /\ player = MidPlayer(300 * U, 20 * U, c, 60000, level, (3 * U) \div 2)
  /\ enemies = <<Aged(NewEnemy(1, OffsetDrone), 8),
                 [Aged(NewEnemy(1, AlignedDrone), 2) EXCEPT !.hp = 10 * U],
                 [Aged(NewEnemy(1, AlignedDrone), 1) EXCEPT !.hp = 10 * U]>>
  /\ projectiles = <<>>
  /\ powerups = <<[x |-> 300 * U, y |-> (0 - 11) * U, width |-> 20 * U,
                   height |-> 20 * U, type |-> "WEAPON", active |-> TRUE]>>
  /\ stats = [MidStats(60000, 3, level) EXCEPT !.score = 8500, !.credits = 8500,
                                               !.enemiesDestroyed = 45,
                                               !.shotsFired = 300, !.shotsHit = 300]
  /\ timers = <<[left |-> 16, session |-> 1]>>

InitArmory ==
  /\ Playing
  /\ \E level \in {3, 4}, c \in {Worn, Critical} : Armory(level, c)

\* the session buttons, the shop and the frames of a run
NextArmory ==
  \/ StartClick
  \/ startGame
  \/ toggleShop
  \/ togglePause
  \/ purchaseItem
  \/ loopMove
  \/ SpeedExpiry

SpecArmory == (Init \/ InitArmory) /\ [][NextArmory]_vars

\* ---------------------------------------------------------- narrative service
\* what the remote generateContent call does: it throws (or its promise
\* rejects), it answers without text, it answers with text that is not JSON, or
\* it answers with JSON text
RemoteOutcomes == {"throws", "empty", "malformed", "json"}

Fulfilled(v) == [state |-> "fulfilled", value |-> v]

Rejected(v) == [state |-> "rejected", value |-> v]

\* the text of a response: the falsy "" when there is none
ResponseText(outcome) == IF outcome = "empty" THEN "" ELSE outcome

\* generateBriefing: the promise it returns
generateBriefing(outcome) ==
  IF outcome = "throws"
  THEN Fulfilled("Comms link unstable. Proceed with caution.")
  ELSE IF ResponseText(outcome) = ""
       THEN Fulfilled("Systems online. Engage hostiles at will.")
       ELSE Fulfilled(ResponseText(outcome))

\* generateTacticalUpdate: the promise it returns
generateTacticalUpdate(outcome) ==
  IF outcome = "throws"
  THEN Fulfilled("Signal interference detected.")
  ELSE IF ResponseText(outcome) = ""
       THEN Fulfilled("Data received. Keep fighting.")
       ELSE Fulfilled(ResponseText(outcome))

\* generateDebrief without its catch block: a thrown error rejects the promise
generateDebriefUncaught(outcome) ==
  IF outcome = "throws" THEN Rejected("error")
  ELSE IF ResponseText(outcome) = "" THEN Rejected("No response")
  ELSE IF ResponseText(outcome) = "malformed" THEN Rejected("SyntaxError")
  ELSE Fulfilled("parsed")

\* generateDebrief: the promise it returns; the missing text and the failed
\* JSON.parse are thrown inside the try block and caught with the remote error
generateDebrief(outcome) ==
  IF outcome = "throws" \/ ResponseText(outcome) = ""
     \/ ResponseText(outcome) = "malformed"
  THEN Fulfilled("UNKNOWN")
  ELSE Fulfilled("parsed")

Settlement(call, outcome, promise) ==
  [call |-> call, outcome |-> outcome, state |-> promise.state, value |-> promise.value]

\* a generateTacticalUpdate call started by handleGameEvent settles
tacticalUpdateSettles ==
  /\ pendingUpdates > 0
  /\ \E outcome \in RemoteOutcomes :
       settled' = Settlement("generateTacticalUpdate", outcome,
                             generateTacticalUpdate(outcome))
  /\ pendingUpdates' = pendingUpdates - 1
  /\ UNCHANGED <<gameState, pendingStarts, world, input, timers, session, events, hits,
                 log, endGameCalls, statsUpdates, request, result, lastFrame, idle,
                 ticks, debriefRequests>>

\* the generateBriefing call of startGame settles, before the first frame of
\* the session it starts
briefingSettles ==
  /\ ticks = 0
  /\ \E outcome \in RemoteOutcomes :
       settled' = Settlement("generateBriefing", outcome, generateBriefing(outcome))
  /\ UNCHANGED <<gameState, pendingStarts, world, input, timers, session, events, hits,
                 log, endGameCalls, statsUpdates, request, result, lastFrame, idle,
                 ticks, pendingUpdates, debriefRequests>>

\* a generateDebrief call, the one handleGameOver makes for the stats of an
\* ended session, settles
debriefSettles ==
  /\ gameState = "GAME_OVER"
  /\ \E outcome \in RemoteOutcomes :
       settled' = Settlement("generateDebrief", outcome, generateDebrief(outcome))
  /\ UNCHANGED <<gameState, pendingStarts, world, input, timers, session, events, hits,
                 log, endGameCalls, statsUpdates, request, result, lastFrame, idle,
                 ticks, pendingUpdates, debriefRequests>>

\* a combat run with the narrative service answering at any moment, in any way
NextNarrative ==
  \/ loopRun
  \/ SpeedExpiry
  \/ tacticalUpdateSettles
  \/ briefingSettles
  \/ debriefSettles

SpecNarrative == InitTick /\ [][NextNarrative]_vars

\* ------------------------------------------------------------------ properties
\* C1: a frame that runs while the session is PAUSED or in the SHOP leaves the
\* world as it was: the clock, the spawn timer, the player, and every enemy,
\* projectile, particle and powerup, with all their positions, hp, shields and
\* timestamps, and the stats and the shake
C1_SuspendedTickChangesNothing ==
  [][(gameState \in {"PAUSED", "SHOP"} /\ idle' = idle + 1) => UNCHANGED world]_vars

\* a frame has run in PAUSED or SHOP over a world that holds enemies
C1_Witness ==
  /\ gameState \in {"PAUSED", "SHOP"}
  /\ lastFrame = gameState
  /\ idle > 0
  /\ enemies # <<>>

\* the world right after resetGame
ResetWorld ==
  /\ player.hp = 100 * U
  /\ player.shield = 50 * U
  /\ player.weaponLevel = 1
  /\ player.speedMultiplier = U
  /\ player.invulnerableUntil = 3000
  /\ enemies = <<>>
  /\ projectiles = <<>>
  /\ particles = <<>>
  /\ powerups = <<>>
  /\ stats.score = 0
  /\ stats.credits = 0
  /\ stats.wave = 1
  /\ stats.enemiesDestroyed = 0
  /\ stats.shotsFired = 0
  /\ stats.shotsHit = 0
  /\ gameTime = 0
  /\ spawnTimer = 0

\* C2: the step from GAME_OVER to PLAYING leaves the world reset: hp 100,
\* shield 50, weaponLevel 1, speedMultiplier 1, no entities, zeroed stats with
\* wave 1, clock and spawn timer 0, invulnerableUntil 3000
C2_RestartResets ==
  [][(gameState = "GAME_OVER" /\ gameState' = "PLAYING") => ResetWorld']_vars

\* C3: in the hits of one tick no two hits on enemies come from the same
\* player projectile
C3_ProjectileHitsOneEnemy ==
  \A a, b \in 1..Len(hits) :
    (a # b /\ hits[a].target = "enemy" /\ hits[b].target = "enemy")
      => hits[a].proj # hits[b].proj

\* C4: every hit of the last tick, on the player or on an enemy, took the
\* damage d from the shield s first: with s > 0 the shield is max(0, s - d) and
\* the hull h - max(0, d - s) afterwards, with s = 0 the hull is h - d; and a
\* player with shield 50 and hull 100 hit by 60 is left with shield 0, hull 90
C4_ShieldFirstDamage ==
  /\ \A k \in 1..Len(hits) :
       LET x == hits[k]
       IN /\ x.s > 0 => (x.s2 = Max(0, x.s - x.d) /\ x.h2 = x.h - Max(0, x.d - x.s))
          /\ x.s = 0 => (x.s2 = 0 /\ x.h2 = x.h - x.d)
          /\ x.d <= x.s => x.h2 = x.h
  /\ PlayerContactDamage(NewPlayer(3000), 60 * U).shield = 0
  /\ PlayerContactDamage(NewPlayer(3000), 60 * U).hp = 90 * U

\* a contact broke the player's shield and spilled into the hull in a tick
\* in which a player projectile also hit an enemy
C4_Witness ==
  /\ \E k \in 1..Len(hits) :
       hits[k].target = "player" /\ hits[k].s > 0 /\ hits[k].d > hits[k].s
  /\ \E k \in 1..Len(hits) : hits[k].target = "enemy"

\* C5: the expiry of a speed buff that an earlier session scheduled leaves
\* speedMultiplier as it is
C5_StaleExpiryIgnored ==
  [][(timers # <<>> /\ timers' = Tail(timers) /\ Head(timers).session < session)
       => player'.speedMultiplier = player.speedMultiplier]_vars

\* the player was hit in the last tick
PlayerHit(hs) == \E k \in 1..Len(hs) : hs[k].target = "player"

\* C6: a tick whose clock is at most player.invulnerableUntil hits the player
\* with no enemy and no enemy projectile: no hit on the player is applied (so
\* nothing is deactivated by one), hp and shield do not drop, no HULL_DAMAGE is
\* emitted and the session does not end; and in every tick invulnerableUntil is
\* the 3000 ms that the reset set
C6_InvulnerableWindow ==
  [][(ticks' = ticks + 1)
       => /\ player'.invulnerableUntil = 3000
          /\ (gameTime' <= player.invulnerableUntil)
               => /\ ~PlayerHit(hits')
                  /\ player'.hp >= player.hp
                  /\ player'.shield >= player.shield
                  /\ \A k \in 1..Len(events') : events'[k] # "HULL_DAMAGE"
                  /\ endGameCalls' = 0
                  /\ gameState' = "PLAYING"]_vars

\* after a tick inside the window an enemy and an enemy projectile both
\* overlap the player, and all three are still there
C6_Witness ==
  /\ ticks > 0
  /\ lastFrame = "PLAYING"
  /\ gameTime <= player.invulnerableUntil
  /\ \E i \in 1..Len(enemies) :
       Overlap(enemies[i].x, enemies[i].y, enemies[i].width, enemies[i].height,
               player.x, player.y, player.width, player.height, 0)
  /\ \E i \in 1..Len(projectiles) :
       /\ projectiles[i].owner = "enemy"
       /\ Overlap(projectiles[i].x, projectiles[i].y, projectiles[i].width,
                  projectiles[i].height, player.x, player.y, player.width, player.height, 0)

\* C7: a tick in which a hit leaves the player's hp at 0 or below ends in
\* GAME_OVER, and in GAME_OVER no tick runs and no frame changes the world
C7_DeathEndsSession ==
  [][/\ (ticks' = ticks + 1 /\ \E k \in 1..Len(hits') :
                                  hits'[k].target = "player" /\ hits'[k].h2 <= 0)
          => gameState' = "GAME_OVER"
     /\ gameState = "GAME_OVER" => ticks' = ticks
     /\ (gameState = "GAME_OVER" /\ idle' = idle + 1) => UNCHANGED world]_vars

\* a lethal hit ended the session and a frame has run in GAME_OVER since
C7_Witness ==
  /\ gameState = "GAME_OVER"
  /\ lastFrame = "GAME_OVER"
  /\ player.hp <= 0
  /\ \E k \in 1..Len(hits) : hits[k].target = "player" /\ hits[k].h2 <= 0

\* the transitions of the session state
Transitions ==
  {<<"MENU", "PLAYING">>, <<"PLAYING", "PAUSED">>, <<"PAUSED", "PLAYING">>,
   <<"PLAYING", "SHOP">>, <<"SHOP", "PLAYING">>, <<"PLAYING", "GAME_OVER">>,
   <<"GAME_OVER", "PLAYING">>}

\* C8: until the first start the session state is MENU, and every change of
\* it is one of MENU->PLAYING, PLAYING<->PAUSED, PLAYING<->SHOP,
\* PLAYING->GAME_OVER and GAME_OVER->PLAYING (so no toggle leaves MENU or
\* GAME_OVER, and PAUSED and SHOP are never entered from each other); MENU and
\* GAME_OVER are left by a start only, and GAME_OVER is entered with hull <= 0
C8_SessionTransitions ==
  /\ [](session = 0 => gameState = "MENU")
  /\ [][/\ gameState' # gameState => <<gameState, gameState'>> \in Transitions
        /\ (gameState \in {"MENU", "GAME_OVER"} /\ gameState' # gameState)
             => pendingStarts' = pendingStarts - 1
        /\ (gameState' = "GAME_OVER" /\ gameState # "GAME_OVER")
             => (player'.hp <= 0 /\ ticks' = ticks + 1)]_vars

\* a session was lost and restarted, and the restarted one is paused
C8_Witness ==
  /\ session = 2
  /\ gameState = "PAUSED"
  /\ player.hp <= 0

\* C9: purchaseUpgrade(WEAPON) returns true exactly when credits >=
\* weaponLevel * 2500 and weaponLevel < 4; it then takes weaponLevel * 2500 (at
\* the level before) from credits and adds 1 to weaponLevel, else it changes
\* nothing; at level 4 with 10000 credits it returns false, credits stay 10000
C9_WeaponPurchase ==
  [][(request' = "WEAPON")
       => LET ok == stats.credits >= player.weaponLevel * 2500 /\ player.weaponLevel < 4
          IN /\ result' = "true" <=> ok
             /\ ok => /\ stats'.credits = stats.credits - player.weaponLevel * 2500
                      /\ player'.weaponLevel = player.weaponLevel + 1
                      /\ player'.hp = player.hp
             /\ ~ok => UNCHANGED <<stats, player>>
             /\ (player.weaponLevel = 4 /\ stats.credits = 10000)
                  => (result' = "false" /\ stats'.credits = 10000)]_vars

\* the weapon was bought up to level 4 with the last credits
C9_Witness ==
  /\ request = "WEAPON"
  /\ result = "true"
  /\ player.weaponLevel = 4
  /\ stats.credits = 0

\* C10: purchaseUpgrade(REPAIR) returns true exactly when credits >= 1000 and
\* hp < maxHp; it then takes 1000 from credits and sets hp to min(hp + 50,
\* maxHp), else it changes nothing; with 1000 credits and hp 60 of 100 it
\* returns true, credits become 0 and hp 100
C10_RepairPurchase ==
  [][(request' = "REPAIR")
       => LET ok == stats.credits >= 1000 /\ player.hp < player.maxHp
          IN /\ result' = "true" <=> ok
             /\ ok => /\ stats'.credits = stats.credits - 1000
                      /\ player'.hp = Min(player.hp + 50 * U, player.maxHp)
                      /\ player'.weaponLevel = player.weaponLevel
             /\ ~ok => UNCHANGED <<stats, player>>
             /\ (stats.credits = 1000 /\ player.hp = 60 * U /\ player.maxHp = 100 * U)
                  => (result' = "true" /\ stats'.credits = 0 /\ player'.hp = 100 * U)]_vars

\* a repair of a hull of 60 was clamped at 100 and took the last 1000 credits
C10_Witness ==
  /\ request = "REPAIR"
  /\ result = "true"
  /\ stats.credits = 0
  /\ player.hp = 100 * U

\* C11: a purchaseUpgrade call that fails returns the value false and leaves the
\* credits, the hull and both weapon levels as they were, emits neither
\* WEAPON_UPGRADED nor REPAIR_COMPLETE nor a stats snapshot; every call returns
\* true or false, and a call of the kind SHIELD always fails
C11_FailedPurchase ==
  [][/\ result' \in {"true", "false"}
     /\ request' = "SHIELD" => result' = "false"
     /\ result' = "false"
          => /\ stats' = stats
             /\ player' = player
             /\ events' = <<>>
             /\ statsUpdates' = 0]_vars

\* a SHIELD purchase was refused with 10000 credits at hand, which are still there
C11_Witness ==
  /\ request = "SHIELD"
  /\ result = "false"
  /\ stats.credits = 10000
  /\ events = <<>>

\* C12: a direct collision of a vulnerable player with a guardian whose shield
\* is > 0 sets that shield to 0 and leaves the guardian active; a collision with
\* a guardian whose shield is 0 (as the first collision left it), or with any
\* other enemy, deactivates the enemy; the shield a collision meets is the one
\* the enemy had when the tick began, so nothing restores it in between
C12_GuardianShieldImpact ==
  [][ticks' = ticks + 1
       => \A k \in DOMAIN log'.contacts :
            LET c == log'.contacts[k]
            IN /\ c.enemy \in DOMAIN enemies => c.shield = enemies[c.enemy].shield
               /\ IF c.type = "guardian" /\ c.shield > 0
                  THEN c.shield2 = 0 /\ c.active2
                  ELSE ~c.active2]_vars

\* the second tick of a run: the guardian that kept the player's contact in the
\* first tick at the price of its shield is met again and is destroyed
C12_Witness ==
  /\ ticks = 2
  /\ \E k \in DOMAIN log.contacts :
       /\ log.contacts[k].type = "guardian"
       /\ log.contacts[k].shield = 0
       /\ ~log.contacts[k].active2

\* the number of times x occurs in seq
Count(seq, x) == Cardinality({i \in DOMAIN seq : seq[i] = x})

\* C13: the wave is 1 + floor(enemiesDestroyed / 20) at every tick boundary, and
\* a tick emits one WAVE_CLEARED per wave it adds, which is one for each positive
\* multiple of 20 that enemiesDestroyed reaches in it and none otherwise
C13_WavePerTwentyKills ==
  /\ [](stats.wave = 1 + stats.enemiesDestroyed \div 20)
  /\ [][ticks' = ticks + 1
          => /\ Count(events', "WAVE_CLEARED") = stats'.wave - stats.wave
             /\ stats'.wave - stats.wave
                  = stats'.enemiesDestroyed \div 20 - stats.enemiesDestroyed \div 20]_vars

\* one tick destroyed two enemies: the kills took the count from 19 to 21, the wave from 1 to 2, with one WAVE_CLEARED
C13_Witness ==
  /\ ticks = 1
  /\ stats.enemiesDestroyed = 21
  /\ stats.wave = 2
  /\ Count(events, "WAVE_CLEARED") = 1

\* C14: a tick whose simulation time is more than fireRate past lastFired
\* pushes exactly weaponLevel player projectiles (weaponLevel 1..4), each owned
\* by the player, of damage 25 and flying upwards, sets lastFired to the time of
\* the tick and adds one to shotsFired; any other tick pushes no player
\* projectile and leaves lastFired and shotsFired alone
C14_AutoFireCycle ==
  [][(ticks' = ticks + 1 /\ player.weaponLevel \in 1..MaxWeaponLevel)
       => IF gameTime' - player.lastFired > player.fireRate
          THEN /\ Len(log'.fired) = player.weaponLevel
               /\ \A k \in DOMAIN log'.fired :
                    /\ log'.fired[k].owner = "player"
                    /\ log'.fired[k].damage = ProjectileDamage * U
                    /\ log'.fired[k].vy < 0
                    /\ log'.fired[k].active
               /\ player'.lastFired = gameTime'
               /\ stats'.shotsFired = stats.shotsFired + 1
          ELSE /\ log'.fired = <<>>
               /\ player'.lastFired = player.lastFired
               /\ stats'.shotsFired = stats.shotsFired]_vars

\* a cycle of the level 4 weapon: four projectiles, lastFired at the tick's time
C14_Witness ==
  /\ ticks = 1
  /\ player.weaponLevel = MaxWeaponLevel
  /\ Len(log.fired) = 4
  /\ player.lastFired = gameTime
  /\ stats.shotsFired = 121

\* outside the playfield of 600 x 800 extended by 50 on every side
Offscreen(p) ==
  \/ p.y < (0 - 50) * U
  \/ p.y > 850 * U
  \/ p.x < (0 - 50) * U
  \/ p.x > 650 * U

\* C15 as stated: at the end of every PLAYING tick no projectile of the set lies
\* outside the playfield bounds extended by 50
C15_NoProjectileOutside ==
  \A k \in DOMAIN projectiles : ~Offscreen(projectiles[k])

\* C15 as the code has it: at the end of a PLAYING tick the only projectiles
\* outside the bounds extended by 50 are the shots an enemy pushed in that very
\* tick (they are pushed after the projectiles were moved, at the position of an
\* enemy that may itself be outside); a projectile that moved out of the bounds
\* is gone, and every remaining enemy, projectile, particle and powerup is active
C15_OnlyFreshShotsOutside ==
  [][ticks' = ticks + 1
       => /\ \A k \in DOMAIN projectiles' :
               /\ projectiles'[k].active
               /\ Offscreen(projectiles'[k])
                    => \E n \in DOMAIN log'.shots : log'.shots[n] = projectiles'[k]
          /\ \A k \in DOMAIN enemies' : enemies'[k].active
          /\ \A k \in DOMAIN particles' : particles'[k].active
          /\ \A k \in DOMAIN powerups' : powerups'[k].active]_vars

\* the tick removed the player projectile that left through the top and kept
\* the shot of the fighter left of the playfield
C15_Witness ==
  /\ ticks = 1
  /\ \E k \in DOMAIN projectiles :
       /\ projectiles[k].x < (0 - 50) * U
       /\ \E n \in DOMAIN log.shots : log.shots[n] = projectiles[k]
  /\ \A k \in DOMAIN projectiles :
       /\ projectiles[k].y >= (0 - 50) * U
       /\ projectiles[k].y <= (CANVAS_HEIGHT + 50) * U

\* the elements of a sequence
Range(seq) == {seq[i] : i \in DOMAIN seq}

\* C16: every tick brings each player projectile and each non-homing enemy
\* projectile (straight shot or mine) it keeps closer to the edge it leaves by:
\* a player projectile is at least 10 higher than before, an enemy one at least
\* 1 lower, unless this tick pushed it; with the purge of whatever is outside
\* the bounds (at most one tick after it was pushed there) none of them can
\* stay in the set for more than 900 ticks
C16_ProjectilesAdvance ==
  [][ticks' = ticks + 1
       => \A k \in DOMAIN projectiles' :
            LET q == projectiles'[k]
            IN \/ q.tracking
               \/ q \in Range(log'.shots)
               \/ /\ ~Offscreen(q)
                  /\ \E p \in Range(projectiles) \cup Range(log'.fired) :
                       /\ p.owner = q.owner
                       /\ p.isMine = q.isMine
                       /\ ~p.tracking
                       /\ q.x = p.x + q.vx
                       /\ IF q.owner = "player" THEN q.y <= p.y - 10 * U
                                                ELSE q.y >= p.y + U]_vars

\* two ticks of the run: the mine drifted over the bottom bound and is gone,
\* while the fighter left of the playfield is still there
C16_Witness ==
  /\ ticks = 2
  /\ \A k \in DOMAIN projectiles : ~projectiles[k].isMine
  /\ \E k \in DOMAIN enemies : enemies[k].x < (0 - 50) * U

\* C17: the player's hp is within 0..maxHp in every reachable state, also right
\* after a lethal hit whose damage exceeds the remaining hull
C17_HullWithinBounds ==
  /\ 0 <= player.hp
  /\ player.hp <= player.maxHp

\* C18: the player's shield is within 0..maxShield in every reachable state,
\* under any sequence of hits, SHIELD pickups and regeneration steps, and every
\* enemy's shield is within 0..its maxShield
C18_ShieldWithinBounds ==
  /\ 0 <= player.shield
  /\ player.shield <= player.maxShield
  /\ \A k \in DOMAIN enemies :
       /\ 0 <= enemies[k].shield
       /\ enemies[k].shield <= enemies[k].maxShield

\* what is left of each cooldown that is compared with the simulation clock
Remaining ==
  [invulnerability |-> player.invulnerableUntil - gameTime,
   fire |-> player.lastFired - gameTime,
   enemyFire |-> [k \in DOMAIN enemies |-> enemies[k].lastFired - gameTime],
   spawn |-> spawnTimer - gameTime]

\* C19: the simulation clock advances only in ticks executed in PLAYING (any
\* other change of it is the reset to 0 of a new session), and no step taken in
\* PAUSED or SHOP, into them or out of them, whatever frame deltas pass
\* meanwhile, changes the clock, the remaining invulnerability, the player's
\* or an enemy's remaining fire cooldown or the remaining spawn interval
C19_ClockOnlyInPlaying ==
  /\ [][gameTime' # gameTime
          => \/ gameState = "PLAYING" /\ ticks' = ticks + 1 /\ gameTime' > gameTime
             \/ gameTime' = 0]_vars
  /\ [][(gameState \in {"PAUSED", "SHOP"} \/ gameState' \in {"PAUSED", "SHOP"})
          => gameTime' = gameTime /\ Remaining' = Remaining]_vars

\* a session resumed after a frame that passed while it was suspended, with
\* its clock, its invulnerability window and its enemies as before
C19_Witness ==
  /\ gameState = "PLAYING"
  /\ lastFrame \in {"PAUSED", "SHOP"}
  /\ idle > 0
  /\ ticks = 0
  /\ gameTime = 2000
  /\ player.invulnerableUntil - gameTime = 1000
  /\ enemies # <<>>

\* C20: speedMultiplier is 1.5 during the whole 5000 ms window of every SPEED
\* pickup, also of a second pickup less than 5000 ms after a first one, and it
\* is 1.0 once no expiry is pending
C20_SpeedWindow ==
  /\ (\E i \in DOMAIN timers : timers[i].left > 0) => player.speedMultiplier = (3 * U) \div 2
  /\ timers = <<>> => player.speedMultiplier = U

\* the counters of the stats that only grow
Counters(s) == <<s.score, s.wave, s.enemiesDestroyed, s.shotsFired, s.shotsHit, s.timeSurvived>>

\* C21: no step other than a session reset (the stats set back to their initial
\* values with the clock at 0) lowers score, wave, enemiesDestroyed, shotsFired,
\* shotsHit or timeSurvived; a tick lowers none of them nor the credits; and
\* the credits fall only by the cost of a purchaseUpgrade that returned true
C21_StatsMonotone ==
  [][\/ stats' = NewStats /\ gameTime' = 0
     \/ /\ \A k \in 1..6 : Counters(stats')[k] >= Counters(stats)[k]
        /\ ticks' = ticks + 1 => stats'.credits >= stats.credits
        /\ stats'.credits < stats.credits
             => /\ result' = "true"
                /\ \/ request' = "REPAIR" /\ stats.credits - stats'.credits = RepairCost
                   \/ request' = "WEAPON"
                        /\ stats.credits - stats'.credits = player.weaponLevel * WeaponCostPerLevel]_vars

\* a session whose tick raised shotsFired and timeSurvived and whose credits
\* then fell from 1000 to 0 by a repair, the score staying at 1000
C21_Witness ==
  /\ ticks = 1
  /\ result = "true"
  /\ request = "REPAIR"
  /\ stats.shotsFired = 121
  /\ stats.timeSurvived > 4000
  /\ stats.score = 1000
  /\ stats.credits = 0

\* C23: a failure of the narrative service never reaches the engine: each call
\* of generateBriefing, generateTacticalUpdate and generateDebrief is fulfilled,
\* never rejected, with its fallback value when the remote call throws or
\* answers without text; a tick starts calls without waiting for an answer or
\* consuming one, and an answer, whenever and however it comes, changes nothing
\* of the session or the world.
C23_NarrativeNeverBlocks ==
  /\ [](/\ settled.state \in {"none", "fulfilled"}
        /\ settled.outcome = "throws" =>
             settled.value \in {"Comms link unstable. Proceed with caution.",
                                "Signal interference detected.", "UNKNOWN"}
        /\ settled.outcome = "empty" =>
             settled.value \in {"Systems online. Engage hostiles at will.",
                                "Data received. Keep fighting.", "UNKNOWN"})
  /\ [][/\ ticks' # ticks => (settled' = settled /\ pendingUpdates' >= pendingUpdates)
        /\ settled' # settled =>
             (/\ gameState' = gameState
              /\ world' = world
              /\ timers' = timers
              /\ outputs' = outputs
              /\ ticks' = ticks)]_vars

\* the session ended behind an unanswered tactical update, and the debrief
\* call, whose answer had no text, has settled
C23_Witness ==
  /\ ticks >= 1
  /\ gameState = "GAME_OVER"
  /\ pendingUpdates > 0
  /\ settled.call = "generateDebrief"
  /\ settled.outcome = "empty"
  /\ settled.state = "fulfilled"

\* C24: the type of a spawned enemy is this function of its draw r and of the
\* wave: guardian if wave >= 3 and r > 0.9, else minelayer if wave >= 2 and
\* r > 0.8, else bomber if r > 0.95, else seeker if r > 0.8, else fighter if
\* r > 0.6, else drone; only a guardian spawns with a shield, of 100 out of 100;
\* ENEMY_SPAWN_GUARDIAN and ENEMY_SPAWN_MINELAYER are emitted once when that
\* type spawns and not otherwise.
C24_SpawnType ==
  [][ticks' # ticks =>
       /\ log'.spawned = <<>> =>
            (Count(events', "ENEMY_SPAWN_GUARDIAN") = 0
             /\ Count(events', "ENEMY_SPAWN_MINELAYER") = 0)
       /\ log'.spawned # <<>> =>
            LET r == log'.spawned[1].rand
                wave == stats.wave
                e == enemies'[Len(enemies')]
                type == IF wave >= 3 /\ r > 90 THEN "guardian"
                        ELSE IF wave >= 2 /\ r > 80 THEN "minelayer"
                        ELSE IF r > 95 THEN "bomber"
                        ELSE IF r > 80 THEN "seeker"
                        ELSE IF r > 60 THEN "fighter"
                        ELSE "drone"
            IN /\ enemies' # <<>>
               /\ e.type = type
               /\ (e.type = "guardian") => (wave >= 3)
               /\ (e.type = "minelayer") => (wave >= 2)
               /\ e.shield = e.maxShield
               /\ e.shield = (IF e.type = "guardian" THEN 100 * U ELSE 0)
               /\ Count(events', "ENEMY_SPAWN_GUARDIAN")
                    = (IF e.type = "guardian" THEN 1 ELSE 0)
               /\ Count(events', "ENEMY_SPAWN_MINELAYER")
                    = (IF e.type = "minelayer" THEN 1 ELSE 0)]_vars

\* a guardian has spawned, shielded and announced, from a draw above 0.9 in
\* wave 3
C24_Witness ==
  /\ ticks = 1
  /\ stats.wave = 3
  /\ log.spawned # <<>>
  /\ log.spawned[1].rand = 91
  /\ enemies # <<>>
  /\ enemies[Len(enemies)].type = "guardian"
  /\ enemies[Len(enemies)].shield = 100 * U
  /\ Count(events, "ENEMY_SPAWN_GUARDIAN") = 1

\* C25: a tick spawns at most one enemy, and spawns one exactly when the
\* simulation time since the previous spawn is greater than
\* max(200, 1000 - 50 * wave) ms; the spawn restarts that interval, so two
\* consecutive spawns are more than 200 ms of simulation time apart.
C25_SpawnInterval ==
  [][ticks' # ticks =>
       LET elapsed == gameTime' - spawnTimer
           interval == IF 1000 - 50 * stats.wave > 200 THEN 1000 - 50 * stats.wave
                       ELSE 200
       IN /\ Len(log'.spawned) <= 1
          /\ (log'.spawned # <<>>) <=> (elapsed > interval)
          /\ (log'.spawned # <<>>) => (elapsed > 200 /\ spawnTimer' = gameTime')
          /\ (log'.spawned = <<>>) => (spawnTimer' = spawnTimer)]_vars

\* wave 17, where 1000 - 50 * wave is below the floor: an enemy has spawned 201
\* ms after the previous spawn
C25_Witness ==
  /\ ticks = 1
  /\ stats.wave = 17
  /\ gameTime = 60016
  /\ spawnTimer = gameTime
  /\ Len(log.spawned) = 1
  /\ Len(enemies) = 1

\* C26 as stated: every enemy projectile is created with damage 15 + 3 * wave,
\* where wave is the wave at the tick it is fired, mines and homing projectiles
\* included.
C26_AllShotsScaleWithWave ==
  [][ticks' # ticks =>
       \A k \in DOMAIN log'.shots :
          log'.shots[k].damage = (15 + 3 * stats.wave) * U]_vars

\* C26: the shots of fighters and bombers are created with damage
\* 15 + 3 * wave, where wave is the wave at the tick they are fired; a mine is
\* created with damage 40 and a homing projectile with damage 25, at every wave.
C26_ShotDamageByKind ==
  [][ticks' # ticks =>
       \A k \in DOMAIN log'.shots :
          LET s == log'.shots[k]
          IN /\ s.owner = "enemy"
             /\ s.damage = (IF s.isMine THEN 40 * U
                            ELSE IF s.tracking THEN 25 * U
                            ELSE (15 + 3 * stats.wave) * U)]_vars

\* wave 3: a mine of damage 40, a homing projectile of damage 25 and shots of
\* damage 24 have been created in one tick
C26_Witness ==
  /\ ticks = 1
  /\ stats.wave = 3
  /\ \E k \in DOMAIN log.shots : log.shots[k].isMine /\ log.shots[k].damage = 40 * U
  /\ \E k \in DOMAIN log.shots : log.shots[k].tracking /\ log.shots[k].damage = 25 * U
  /\ \E k \in DOMAIN log.shots :
       /\ ~log.shots[k].isMine
       /\ ~log.shots[k].tracking
       /\ log.shots[k].damage = 24 * U

\* the score values of the enemies that the hits hs, resolved as the strikes
\* ss, brought to hp <= 0
RECURSIVE Bounty(_, _, _)
Bounty(hs, ss, es) ==
  IF hs = <<>> THEN 0
  ELSE (IF Head(hs).h2 <= 0 THEN es[Head(ss).enemy].scoreValue ELSE 0)
       + Bounty(Tail(hs), Tail(ss), es)

OnEnemy(r) == r.target = "enemy"

\* the scoreValue of the enemies spawned from the draws of sp
SpawnValues(sp) ==
  [k \in DOMAIN sp |->
     [scoreValue |-> IF sp[k].wave >= 3 /\ sp[k].rand > 90 THEN 400
                     ELSE IF sp[k].wave >= 2 /\ sp[k].rand > 80 THEN 250
                     ELSE IF sp[k].rand > 95 THEN 300
                     ELSE IF sp[k].rand > 80 THEN 150
                     ELSE IF sp[k].rand > 60 THEN 200
                     ELSE 100]]

\* C27: an enemy whose hp a player projectile brings to <= 0 is inactive at the
\* end of that tick and gone from the store; each such kill adds the enemy's
\* scoreValue to score and to credits and 1 to enemiesDestroyed; an enemy
\* removed by touching the player or by leaving the bottom bound adds nothing
\* to any of them (score changes besides only by the 500 of a WEAPON pickup at
\* level 4).
C27_KillBookkeeping ==
  [][ticks' # ticks =>
       LET hs == SelectSeq(hits', OnEnemy)
           ss == SelectSeq(log'.strikes, OnEnemy)
           fatal == {k \in DOMAIN hs : hs[k].h2 <= 0}
           killed == {ss[k].enemy : k \in fatal}
           touched == {log'.contacts[k].enemy : k \in {i \in DOMAIN log'.contacts :
                                                         ~log'.contacts[i].active2}}
           sunk == {j \in DOMAIN enemies :
                      enemies[j].y + enemies[j].vy > (800 + 50) * U}
           bonus == 500 * Cardinality({k \in DOMAIN log'.pickups :
                                        /\ log'.pickups[k].type = "WEAPON"
                                        /\ log'.pickups[k].level = 4})
           es == enemies \o SpawnValues(log'.spawned)
       IN /\ Len(hs) = Len(ss)
          /\ \A k \in DOMAIN ss : ss[k].enemy \in DOMAIN es
          /\ Cardinality(killed) = Cardinality(fatal)
          /\ killed \cap (touched \cup sunk) = {}
          /\ stats'.score = stats.score + Bounty(hs, ss, es) + bonus
          /\ stats'.credits = stats.credits + Bounty(hs, ss, es)
          /\ stats'.enemiesDestroyed = stats.enemiesDestroyed + Cardinality(fatal)
          /\ Len(enemies') = Len(enemies) + Len(log'.spawned)
                               - Cardinality(killed \cup touched \cup sunk)
          /\ \A j \in DOMAIN enemies' : enemies'[j].active /\ enemies'[j].hp > 0]_vars

\* one tick in which two drones worth 100 each were shot down, a third was
\* destroyed by touching the player and a fourth left through the bottom bound:
\* score and credits are up by 200 and enemiesDestroyed by 2
C27_Witness ==
  /\ ticks = 1
  /\ \E k \in DOMAIN hits : hits[k].target = "enemy" /\ hits[k].h2 <= 0
  /\ \E k \in DOMAIN log.contacts : ~log.contacts[k].active2
  /\ Len(enemies) = 1
  /\ Len(log.spawned) = 0
  /\ stats.score = 1200
  /\ stats.credits = 1200
  /\ stats.enemiesDestroyed = 7

\* the boxes of a and b, centred on their positions, overlap, a lowered by dy
Touches(a, dy, b) ==
  /\ 2 * (IF a.x < b.x THEN b.x - a.x ELSE a.x - b.x) < a.width + b.width
  /\ 2 * (IF a.y + dy < b.y THEN b.y - (a.y + dy) ELSE a.y + dy - b.y)
       < a.height + b.height

\* C28: a powerup that overlaps the player after its drift of 2 is picked up
\* once in that tick and is gone after it, and no other powerup is picked up;
\* a WEAPON pickup below level 4 raises weaponLevel by 1 and emits
\* WEAPON_UPGRADED, at level 4 it leaves the level and adds 500 to score; a
\* SHIELD pickup sets shield to maxShield and hp to min(hp + 25, maxHp); the
\* pickups come before the hits of the tick, so the first hit on the player in
\* the tick of a SHIELD pickup meets the refilled shield.
C28_PowerupPickup ==
  [][ticks' # ticks =>
       LET picks == log'.pickups
           mine == {k \in DOMAIN hits' : hits'[k].target = "player"}
       IN /\ \A i \in DOMAIN powerups :
               Cardinality({k \in DOMAIN picks : picks[k].powerup = i})
                 = (IF Touches(powerups[i], 2 * U, player') THEN 1 ELSE 0)
          /\ \A k \in DOMAIN picks : picks[k].powerup \in DOMAIN powerups
          /\ \A i \in DOMAIN powerups :
               Touches(powerups[i], 2 * U, player') =>
                 ~\E j \in DOMAIN powerups' :
                     /\ powerups'[j].x = powerups[i].x
                     /\ powerups'[j].y = powerups[i].y + 2 * U
          /\ \A j \in DOMAIN powerups' : powerups'[j].active
          /\ \A k \in DOMAIN picks :
               LET r == picks[k]
               IN CASE r.type = "WEAPON" /\ r.level < 4 ->
                         /\ r.level2 = r.level + 1
                         /\ r.events = <<"WEAPON_UPGRADED">>
                         /\ r.score2 = r.score
                         /\ r.hp2 = r.hp /\ r.shield2 = r.shield
                    [] r.type = "WEAPON" /\ r.level >= 4 ->
                         /\ r.level2 = 4
                         /\ r.level = 4
                         /\ r.events = <<>>
                         /\ r.score2 = r.score + 500
                         /\ r.hp2 = r.hp /\ r.shield2 = r.shield
                    [] r.type = "SHIELD" ->
                         /\ r.shield2 = player.maxShield
                         /\ r.hp2 = (IF r.hp + 25 * U < player.maxHp THEN r.hp + 25 * U
                                     ELSE player.maxHp)
                         /\ r.level2 = r.level /\ r.score2 = r.score
                    [] OTHER ->
                         /\ r.level2 = r.level /\ r.score2 = r.score
                         /\ r.hp2 = r.hp /\ r.shield2 = r.shield
          /\ Count(events', "WEAPON_UPGRADED")
               = Cardinality({k \in DOMAIN picks :
                                picks[k].type = "WEAPON" /\ picks[k].level < 4})
          /\ (picks # <<>> /\ mine # {}) =>
               LET last == picks[Len(picks)]
                   first == hits'[CHOOSE k \in mine : \A m \in mine : k <= m]
               IN /\ first.h = last.hp2
                  /\ last.type = "SHIELD" => first.s = player.maxShield]_vars

\* a hull of 30 without shield met a SHIELD powerup and a drone in one tick:
\* the pickup refilled the shield to 50 and repaired the hull to 55, and the
\* contact damage of 30 was taken by the shield
C28_Witness ==
  /\ ticks = 1
  /\ Len(log.pickups) = 1
  /\ log.pickups[1].type = "SHIELD"
  /\ log.pickups[1].hp = 30 * U
  /\ log.pickups[1].hp2 = 55 * U
  /\ log.pickups[1].shield = 0
  /\ log.pickups[1].shield2 = 50 * U
  /\ \E k \in DOMAIN hits :
       /\ hits[k].target = "player"
       /\ hits[k].cause = "contact"
       /\ hits[k].s = 50 * U
       /\ hits[k].s2 = 20 * U
       /\ hits[k].h2 = 55 * U
  /\ player.hp = 55 * U
  /\ gameState = "PLAYING"

\* the velocities of a volley, in the order its shots were created
Velocities(shots) == [k \in DOMAIN shots |-> <<shots[k].vx, shots[k].vy>>]

\* C29: an enemy gets its turn to fire in a tick exactly when, after its move,
\* 0 < y < 750 and the time since its last shot is greater than its fire
\* interval (3000 ms for a minelayer, 2500 ms for a guardian, 2000 ms
\* otherwise); in that turn a fighter creates one shot straight down, a bomber
\* three (one straight, two angled), a minelayer one mine with velocity (0, 0),
\* a guardian one homing projectile, a drone or a seeker nothing; no enemy
\* projectile is created otherwise.
C29_EnemyFire ==
  [][ticks' # ticks =>
       LET vs == log'.volleys
           Due(j) == LET e == enemies[j]
                         y == e.y + e.vy
                         interval == IF e.type = "minelayer" THEN 3000
                                     ELSE IF e.type = "guardian" THEN 2500
                                     ELSE 2000
                     IN y > 0 /\ y < 750 * U /\ gameTime' - e.lastFired > interval
       IN /\ \A k \in DOMAIN vs : vs[k].enemy \in DOMAIN enemies /\ Due(vs[k].enemy)
          /\ \A j \in DOMAIN enemies :
               Cardinality({k \in DOMAIN vs : vs[k].enemy = j}) = (IF Due(j) THEN 1 ELSE 0)
          /\ \A k \in DOMAIN vs :
               LET type == enemies[vs[k].enemy].type
                   shots == vs[k].shots
               IN /\ \A m \in DOMAIN shots : shots[m].owner = "enemy" /\ shots[m].active
                  /\ CASE type = "fighter" ->
                             /\ Velocities(shots) = << <<0, 6 * U>> >>
                             /\ ~shots[1].isMine /\ ~shots[1].tracking
                        [] type = "bomber" ->
                             /\ Velocities(shots)
                                  = << <<0, 6 * U>>, <<0 - 2 * U, 5 * U>>, <<2 * U, 5 * U>> >>
                             /\ \A m \in DOMAIN shots : ~shots[m].isMine /\ ~shots[m].tracking
                        [] type = "minelayer" ->
                             /\ Velocities(shots) = << <<0, 0>> >>
                             /\ shots[1].isMine /\ ~shots[1].tracking
                        [] type = "guardian" ->
                             /\ Len(shots) = 1
                             /\ shots[1].tracking /\ ~shots[1].isMine
                        [] OTHER -> shots = <<>>
          /\ Len(log'.shots)
               = Cardinality({<<k, m>> \in (DOMAIN vs) \X (1..3) : m <= Len(vs[k].shots)})
          /\ Cardinality({k \in DOMAIN projectiles' : projectiles'[k].owner = "enemy"})
               <= Cardinality({k \in DOMAIN projectiles : projectiles[k].owner = "enemy"})
                  + Len(log'.shots)]_vars

\* wave 3, 3001 ms after the last shots: the six enemies in view had their
\* turn and created a shot, three shots, a mine and a homing projectile, and
\* the two on the edges of the view created nothing
C29_Witness ==
  /\ ticks = 1
  /\ stats.wave = 3
  /\ gameTime = 60016
  /\ Len(enemies) = 8
  /\ Len(log.volleys) = 6
  /\ Len(log.shots) = 6
  /\ \E k \in DOMAIN log.volleys : Len(log.volleys[k].shots) = 3
  /\ \E k \in DOMAIN log.shots : log.shots[k].isMine
  /\ \E k \in DOMAIN log.shots : log.shots[k].tracking

\* the box a, moved by (dx, dy), overlaps the box b widened by pad on each side
Meets(a, dx, dy, b, pad) ==
  /\ 2 * (IF a.x + dx < b.x THEN b.x - (a.x + dx) ELSE a.x + dx - b.x)
       < a.width + b.width + 2 * pad
  /\ 2 * (IF a.y + dy < b.y THEN b.y - (a.y + dy) ELSE a.y + dy - b.y)
       < a.height + b.height + 2 * pad

\* an enemy whose move of a tick is its velocity and nothing else
Straight(e) == e.type \in {"minelayer", "guardian"} \/ (e.type # "seeker" /\ e.pattern # 1)

OnPlayer(r) == r.target = "player"

ByContact(r) == r.target = "player" /\ r.cause = "contact"

\* C30: an enemy touches the player in a tick exactly when the player is
\* vulnerable and their boxes overlap, without padding, after both have moved;
\* it does so once, inflicts 25 + 5 * wave through the shield-first rule, and
\* is deactivated unless it is a guardian with shield > 0, which loses its
\* shield instead; an enemy projectile hits the player on the same unpadded
\* test, and only a player projectile meets an enemy on boxes padded by 5.
C30_ContactDamage ==
  [][ticks' # ticks =>
       LET cs == log'.contacts
           hs == SelectSeq(hits', ByContact)
           vulnerable == gameTime' > player.invulnerableUntil
           d == (25 + 5 * stats.wave) * U
       IN /\ Len(hs) = Len(cs)
          /\ \A k \in DOMAIN cs : cs[k].enemy \in DOMAIN enemies /\ vulnerable
          /\ \A j \in DOMAIN enemies :
               /\ Cardinality({k \in DOMAIN cs : cs[k].enemy = j}) <= 1
               /\ Straight(enemies[j]) =>
                    ((\E k \in DOMAIN cs : cs[k].enemy = j)
                       <=> (vulnerable
                            /\ Meets(enemies[j], enemies[j].vx, enemies[j].vy, player', 0)))
          /\ \A k \in DOMAIN cs :
               LET e == enemies[cs[k].enemy]
                   h == hs[k]
               IN /\ h.d = d
                  /\ h.s2 = (IF h.s > d THEN h.s - d ELSE 0)
                  /\ h.h2 = (IF h.s > 0 /\ h.s >= d THEN h.h
                             ELSE IF h.s > 0 THEN h.h - (d - h.s)
                             ELSE h.h - d)
                  /\ cs[k].active2 = (e.type = "guardian" /\ e.shield > 0)
                  /\ cs[k].shield2 = (IF cs[k].active2 THEN 0 ELSE e.shield)
          /\ \A k \in DOMAIN log'.strikes :
               LET r == log'.strikes[k]
               IN /\ r.target = "player" => (vulnerable /\ Meets(r, 0, 0, player', 0))
                  /\ (r.target = "enemy" /\ r.enemy \in DOMAIN enemies
                      /\ Straight(enemies[r.enemy])) =>
                       LET e == enemies[r.enemy]
                       IN /\ r.owner = "player"
                          /\ Meets(r, 0 - e.vx, 0 - e.vy, e, 5 * U)]_vars

\* wave 3: a guardian with its shield up has touched the player for 40, taken
\* by the player's shield of 50; the guardian lost its shield and stayed
C30_Witness ==
  /\ ticks = 1
  /\ stats.wave = 3
  /\ Len(log.contacts) = 1
  /\ log.contacts[1].type = "guardian"
  /\ log.contacts[1].shield = 100 * U
  /\ log.contacts[1].shield2 = 0
  /\ log.contacts[1].active2
  /\ \E k \in DOMAIN hits :
       /\ hits[k].target = "player"
       /\ hits[k].cause = "contact"
       /\ hits[k].d = 40 * U
       /\ hits[k].s = 50 * U
       /\ hits[k].s2 = 10 * U
       /\ hits[k].h2 = hits[k].h

\* C31: after every PLAYING tick the player's position satisfies
\* 20 <= x <= 580 and 20 <= y <= 780 (half its size inside the canvas), for
\* held keys and for pointer or gaze targets inside or outside the canvas, at
\* speedMultiplier 1 and 1.5.
C31_PlayerInsideCanvas ==
  [][ticks' # ticks =>
       /\ 2 * player'.x >= player'.width
       /\ 2 * player'.x <= 2 * 600 * U - player'.width
       /\ 2 * player'.y >= player'.height
       /\ 2 * player'.y <= 2 * 800 * U - player'.height
       /\ player'.x >= 20 * U /\ player'.x <= 580 * U
       /\ player'.y >= 20 * U /\ player'.y <= 780 * U]_vars

\* a boosted player pushed by W and A against the top left corner has stayed in
\* it
C31_Witness ==
  /\ ticks = 1
  /\ inputMode = "KEYBOARD"
  /\ keys = {"KeyW", "KeyA"}
  /\ player.speedMultiplier = (3 * U) \div 2
  /\ player.x = 20 * U
  /\ player.y = 20 * U

\* C32: in every state player.weaponLevel is one of 1, 2, 3, 4 and
\* stats.weaponLevel equals it, whatever the order of WEAPON pickups, WEAPON
\* purchases and restarts.
C32_WeaponLevelInStep ==
  /\ player.weaponLevel \in {1, 2, 3, 4}
  /\ stats.weaponLevel = player.weaponLevel

\* level 4 was bought in the shop at level 3, and a WEAPON powerup picked up
\* after it left both levels at 4
C32_Witness ==
  /\ player.weaponLevel = 4
  /\ stats.weaponLevel = 4
  /\ stats.credits < 8500
  /\ Len(log.pickups) = 1
  /\ log.pickups[1].type = "WEAPON"
  /\ log.pickups[1].level = 4
  /\ log.pickups[1].level2 = 4

\* C33: in every state stats.credits is at least 0 and at most stats.score:
\* a kill adds its score value to both, a purchase takes credits it found
\* covered, the WEAPON bonus adds to the score alone.
C33_CreditsWithinScore ==
  /\ stats.credits >= 0
  /\ stats.credits <= stats.score

\* the shop sold weapon level 4 for 7500 of 8500 credits, two kills paid 200
\* and a WEAPON powerup at level 4 paid 500 of score alone, and a repair took
\* the 1000 credits left of the first visit
C33_Witness ==
  /\ gameState = "SHOP"
  /\ request = "REPAIR"
  /\ result = "true"
  /\ player.weaponLevel = 4
  /\ stats.score = 9200
  /\ stats.credits = 200

\* C34: every tick that runs the simulation (a frame in the state PLAYING)
\* starts with player.hp > 0, also the ticks after a step from GAME_OVER to
\* PLAYING.
C34_TickStartsAlive ==
  [][ticks' # ticks => (gameState = "PLAYING" /\ player.hp > 0)]_vars

\* C35: in every state stats.shotsHit is at most stats.shotsFired, so the
\* accuracy computed from them is at most 100%.
C35_HitsWithinShots == stats.shotsHit <= stats.shotsFired

\* the sum of the scoreValue of the enemies of es with an index in js
RECURSIVE Worth(_, _)
Worth(js, es) ==
  IF js = {} THEN 0
  ELSE LET j == CHOOSE x \in js : TRUE
       IN es[j].scoreValue + Worth(js \ {j}, es)

\* C36: an enemy is counted as destroyed at most once: in a tick it takes at
\* most one fatal hit, it was alive at every hit it takes and takes none after
\* the fatal one, whatever the number of player projectiles that overlap it;
\* enemiesDestroyed grows by the number of enemies destroyed and score and
\* credits by the sum of their scoreValue (score besides by the 500 of a WEAPON
\* pickup at level 4); and no destroyed enemy is left in the store for a later
\* tick.
C36_DestroyedOnce ==
  [][ticks' # ticks =>
       LET hs == SelectSeq(hits', OnEnemy)
           ss == SelectSeq(log'.strikes, OnEnemy)
           es == enemies \o SpawnValues(log'.spawned)
           fatalAt(j) == {k \in DOMAIN ss : ss[k].enemy = j /\ hs[k].h2 <= 0}
           destroyed == {j \in DOMAIN es : fatalAt(j) # {}}
           bonus == IF \E k \in DOMAIN log'.pickups :
                         log'.pickups[k].type = "WEAPON" /\ log'.pickups[k].level = 4
                    THEN 500 ELSE 0
       IN /\ Len(hs) = Len(ss)
          /\ \A k \in DOMAIN hs : hs[k].h > 0
          /\ \A j \in DOMAIN es :
               /\ Cardinality(fatalAt(j)) <= 1
               /\ \A k \in fatalAt(j) : \A m \in DOMAIN ss : m > k => ss[m].enemy # j
          /\ stats'.enemiesDestroyed = stats.enemiesDestroyed + Cardinality(destroyed)
          /\ stats'.score = stats.score + Worth(destroyed, es) + bonus
          /\ stats'.credits = stats.credits + Worth(destroyed, es)
          /\ \A j \in DOMAIN enemies' : enemies'[j].active /\ enemies'[j].hp > 0]_vars

\* the second tick of a volley at weapon level 4: its left shot destroyed both
\* drones of the lane x = 300, the right shot, 20 to its right at the same
\* height, overlapped them too and is still in flight, and the drones were
\* counted once each (the score holds the 500 of a WEAPON pickup besides)
C36_Witness ==
  /\ ticks = 2
  /\ stats.enemiesDestroyed = 47
  /\ stats.score = 9200
  /\ stats.credits = 8700
  /\ \E k \in DOMAIN log.strikes, i \in DOMAIN projectiles :
       /\ log.strikes[k].target = "enemy"
       /\ log.strikes[k].x = 290 * U
       /\ projectiles[i].owner = "player"
       /\ projectiles[i].active
       /\ projectiles[i].x = 310 * U
       /\ projectiles[i].y = log.strikes[k].y

\* C37: an enemy spawned while wave >= 2 is neither a seeker nor a bomber:
\* its draw r > 0.8 makes it a minelayer or, from wave 3 on, a guardian; in
\* wave 1 every draw r > 0.8 spawns a seeker or a bomber.
C37_NoSeekerNoBomberAfterWaveOne ==
  [][(ticks' # ticks /\ Len(enemies') > Len(enemies)) =>
       LET e == enemies'[Len(enemies')]
           r == log'.spawned[1].rand
       IN /\ log'.spawned[1].wave = stats.wave
          /\ stats.wave >= 2 => e.type \notin {"seeker", "bomber"}
          /\ (stats.wave >= 2 /\ r > 80) => e.type \in {"minelayer", "guardian"}
          /\ (stats.wave = 2 /\ r > 80) => e.type = "minelayer"
          /\ (stats.wave = 1 /\ r > 80) => e.type \in {"seeker", "bomber"}
          /\ e.type \in {"seeker", "bomber"} => stats.wave = 1]_vars

\* in wave 2 a draw above 0.95, the draw of a bomber in wave 1, has spawned a
\* minelayer
C37_Witness ==
  /\ ticks = 1
  /\ stats.wave = 2
  /\ log.spawned # <<>>
  /\ log.spawned[1].rand = 96
  /\ enemies # <<>>
  /\ enemies[Len(enemies)].type = "minelayer"

\* C38: endGame is invoked at most once in a session: the tick in which hp
\* drops to <= 0 invokes it once, however many enemies and enemy projectiles
\* hit the player in that tick.
C38_EndGameOnce == endGameCalls <= 1

\* C39: a tick emits HULL_DAMAGE once for each hit on the player, by contact
\* or by an enemy projectile, that leaves hp > 0, also when the shield took the
\* whole hit; it emits none for a hit that leaves hp <= 0 and none without a
\* hit on the player; no other step emits it.
C39_HullDamagePerHit ==
  [][IF ticks' # ticks
     THEN LET surviving == {k \in DOMAIN hits' : /\ hits'[k].target = "player"
                                                  /\ hits'[k].h2 > 0}
              onPlayer == {k \in DOMAIN hits' : hits'[k].target = "player"}
          IN /\ Count(events', "HULL_DAMAGE") = Cardinality(surviving)
             /\ onPlayer = {} => Count(events', "HULL_DAMAGE") = 0
             /\ (\A k \in onPlayer : hits'[k].h2 <= 0) => Count(events', "HULL_DAMAGE") = 0
     ELSE events' = events \/ Count(events', "HULL_DAMAGE") = 0]_vars

\* one tick with two hits on the player: the shield took the first whole and
\* left the hull as it was, the second left hp > 0 too, and HULL_DAMAGE was
\* emitted twice
C39_Witness ==
  /\ ticks = 1
  /\ Count(events, "HULL_DAMAGE") = 2
  /\ Cardinality({k \in DOMAIN hits : hits[k].target = "player"}) = 2
  /\ \E k \in DOMAIN hits :
       /\ hits[k].target = "player"
       /\ hits[k].h2 = hits[k].h
       /\ hits[k].s2 < hits[k].s
  /\ player.hp > 0

\* no handleGameOver call has been made
NoDebriefRequested == debriefRequests = 0

\* C40: every step from PLAYING to GAME_OVER makes exactly one debrief
\* request: the final stats snapshot of endGame reaches the App's
\* handleGameOver once.
C40_GameOverRequestsDebrief ==
  [][(gameState = "PLAYING" /\ gameState' = "GAME_OVER")
       => debriefRequests' = debriefRequests + 1]_vars

\* C22: every collision a tick resolves is between entities that are both
\* active when it is resolved: nothing that was flagged inactive earlier in the
\* tick (an enemy by a contact or the bottom bound, a projectile by the bounds
\* or by a hit) takes part in it
C22_InactiveTakesNoPart ==
  \A k \in DOMAIN log.strikes : log.strikes[k].projActive /\ log.strikes[k].targetActive

====
